---- MODULE Spec2Model ----
(***************************************************************************)
(* Collision grid, grid builder, circle query, swept movement and spawn    *)
(* search of the tile game (src/src/collision/map.rs,                      *)
(* src/src/map/generate.rs, src/src/player/systems.rs).                    *)
(*                                                                         *)
(* Numbers.  The code computes in f32.  The model computes exactly, in     *)
(* fixed point: one model length unit is 3.2 world units (pixels), so that *)
(* every length the code uses is an integer:                               *)
(*     TILE_SIZE 64.0 = 20,  0.25 * tile = 5,  0.1 * tile = 2,             *)
(*     0.05 * tile = 1,  collider radius 16.0 = 5,  feet offset 38.4 = 12. *)
(* A Vec2 is a record [x, y, d] denoting the point (x/d, y/d); the swept   *)
(* movement divides a displacement by its step count, and d carries that   *)
(* division exactly.  f32 rounding is not modelled.                        *)
(***************************************************************************)
EXTENDS Integers, Sequences, FiniteSets, TLC

VARIABLES
    tiles,          \* the tile entities (TileTypeMarker, Transform), in query iteration order
    built,          \* CollisionMapBuilt.0
    map,            \* the CollisionMap resource, or NoMap
    queue,          \* Commands issued by the systems of this frame, applied at its end
    player,         \* the Player entity's Transform translation, or NoPlayer
    player_spawned, \* PlayerSpawned.0
    ran,            \* the Update systems that have run in the current frame
    builds,         \* number of times build_collision_map constructed a grid
    waited,         \* some build_collision_map tick found no tile and returned
    call,           \* activation record of the function being exercised
    ret             \* its result: [done, value]

vars == <<tiles, built, map, queue, player, player_spawned, ran, builds, waited, call, ret>>

world == <<tiles, built, map, queue, player, player_spawned, ran, builds, waited>>

----------------------------------------------------------------------------
(* Program constants, in model units *)

TILE_SIZE == 20
GRID_X == 25
GRID_Y == 18
COLLIDER_RADIUS == 5
FEET_OFFSET == 12
RANDOM_TRIES == 100

NoMap == [none |-> TRUE]
NoPlayer == [none |-> TRUE]
NoCall == [fn |-> "none"]
NoRet == [done |-> FALSE, value |-> FALSE]

Min(a, b) == IF a <= b THEN a ELSE b
Max(a, b) == IF a >= b THEN a ELSE b
Abs(a) == IF a >= 0 THEN a ELSE -a

\* (a / b).floor() for b > 0
Floor(a, b) == a \div b

Vec2(x, y) == [x |-> x, y |-> y, d |-> 1]

----------------------------------------------------------------------------
(* TileType *)

TileTypes == {"Empty", "Dirt", "Grass", "YellowGrass", "Water", "Shore", "Tree", "Rock"}

\* mutant: Shore counts as blocking, like the water it was made from
TileIsWalkableShoreBlocks(t) == t \notin {"Water", "Tree", "Rock", "Shore"}

TileIsWalkable(t) == t \notin {"Water", "Tree", "Rock"}

----------------------------------------------------------------------------
(* CollisionMap *)

WithOrigin(width, height, tile_size, origin_x, origin_y) ==
    [tiles |-> [i \in 1..(width * height) |-> "Empty"],
     width |-> width,
     height |-> height,
     tile_size |-> tile_size,
     grid_origin_x |-> origin_x,
     grid_origin_y |-> origin_y]

\* 0-based index of the code; tiles[XyIdx + 1] in the model's 1-based sequence
XyIdx(m, x, y) == (y * m.width) + x

\* mutant: only the upper limits are checked
InBoundsUpperOnly(m, x, y) == x < m.width /\ y < m.height

InBounds(m, x, y) == x >= 0 /\ x < m.width /\ y >= 0 /\ y < m.height

\* self.tiles[idx]; an index outside the vector panics in the code, and
\* reads as "IndexOutOfBounds" here
GetTileAt(m, x, y) ==
    LET idx == XyIdx(m, x, y) + 1
    IN IF idx \in DOMAIN m.tiles THEN m.tiles[idx] ELSE "IndexOutOfBounds"

IsWalkable(m, x, y) ==
    IF ~InBounds(m, x, y) THEN FALSE
    ELSE TileIsWalkable(GetTileAt(m, x, y))

SetTile(m, x, y, tile_type) ==
    IF InBounds(m, x, y)
    THEN [m EXCEPT !.tiles[XyIdx(m, x, y) + 1] = tile_type]
    ELSE m

\* mutant: the quotient is cast without floor(), i.e. rounded towards zero
WorldToGridTruncating(m, p) ==
    LET Trunc(a, b) == IF a >= 0 THEN a \div b ELSE -((-a) \div b)
    IN [x |-> Trunc(p.x - m.grid_origin_x * p.d, m.tile_size * p.d),
        y |-> Trunc(p.y - m.grid_origin_y * p.d, m.tile_size * p.d)]

WorldToGrid(m, p) ==
    [x |-> Floor(p.x - m.grid_origin_x * p.d, m.tile_size * p.d),
     y |-> Floor(p.y - m.grid_origin_y * p.d, m.tile_size * p.d)]

IsWorldPosWalkable(m, p) ==
    LET g == WorldToGrid(m, p) IN IsWalkable(m, g.x, g.y)

\* mutant: the four comparisons are strict
IsWorldPosWithinBoundsStrict(m, p, radius_world) ==
    LET r == radius_world * p.d
    IN /\ p.x - r > m.grid_origin_x * p.d
       /\ p.x + r < (m.grid_origin_x + m.width * m.tile_size) * p.d
       /\ p.y - r > m.grid_origin_y * p.d
       /\ p.y + r < (m.grid_origin_y + m.height * m.tile_size) * p.d

IsWorldPosWithinBounds(m, p, radius_world) ==
    LET left == m.grid_origin_x
        right == m.grid_origin_x + m.width * m.tile_size
        bottom == m.grid_origin_y
        top == m.grid_origin_y + m.height * m.tile_size
        r == radius_world * p.d
    IN /\ p.x - r >= left * p.d
       /\ p.x + r <= right * p.d
       /\ p.y - r >= bottom * p.d
       /\ p.y + r <= top * p.d

CircleIntersectsTile(m, center, radius, gx, gy) ==
    LET min_x == (m.grid_origin_x + gx * m.tile_size) * center.d
        min_y == (m.grid_origin_y + gy * m.tile_size) * center.d
        max_x == min_x + m.tile_size * center.d
        max_y == min_y + m.tile_size * center.d
        cx == Max(min_x, Min(center.x, max_x))
        cy == Max(min_y, Min(center.y, max_y))
        dx == center.x - cx
        dy == center.y - cy
        r == radius * center.d
    IN dx * dx + dy * dy <= r * r

\* mutant: the buffers are taken off the radius instead of added to it
EffectiveRadiusEasing(m, t, radius_world) ==
    CASE t = "Shore" -> radius_world - m.tile_size \div 10
      [] t \in {"Tree", "Rock"} -> radius_world - m.tile_size \div 20
      [] OTHER -> radius_world

\* the match of map.rs:92-96; the Shore arm is inside `if !t.is_walkable()`
EffectiveRadius(m, t, radius_world) ==
    CASE t = "Shore" -> radius_world + m.tile_size \div 10
      [] t \in {"Tree", "Rock"} -> radius_world + m.tile_size \div 20
      [] OTHER -> radius_world

\* the cells the two loops of map.rs:85-86 visit
ScannedCells(m, p, radius_world) ==
    LET r == radius_world * p.d
        ts == m.tile_size * p.d
        min_gx == Floor(p.x - r - m.grid_origin_x * p.d, ts)
        max_gx == Floor(p.x + r - m.grid_origin_x * p.d, ts)
        min_gy == Floor(p.y - r - m.grid_origin_y * p.d, ts)
        max_gy == Floor(p.y + r - m.grid_origin_y * p.d, ts)
    IN (min_gx..max_gx) \X (min_gy..max_gy)

\* one iteration of the inner loop: TRUE when it executes `return false`
CellRejects(m, p, radius_world, gx, gy) ==
    IF ~InBounds(m, gx, gy) THEN TRUE
    ELSE LET t == GetTileAt(m, gx, gy) IN
         /\ ~TileIsWalkable(t)
         /\ CircleIntersectsTile(m, p, EffectiveRadius(m, t, radius_world), gx, gy)

\* mutant: no bounds pre-check, and a cell outside the grid is skipped
\* (get_tile's None) instead of rejected
IsWorldPosClearCircleFailOpen(m, p, radius_world) ==
    IF radius_world <= 0 THEN IsWorldPosWalkable(m, p)
    ELSE \A c \in ScannedCells(m, p, radius_world) :
            InBounds(m, c[1], c[2]) => ~CellRejects(m, p, radius_world, c[1], c[2])

\* mutant: a radius that is not positive is rejected outright
IsWorldPosClearCirclePositiveOnly(m, p, radius_world) ==
    IF ~IsWorldPosWithinBounds(m, p, radius_world) THEN FALSE
    ELSE IF radius_world <= 0 THEN FALSE
    ELSE \A c \in ScannedCells(m, p, radius_world) :
            ~CellRejects(m, p, radius_world, c[1], c[2])

IsWorldPosClearCircle(m, p, radius_world) ==
    IF ~IsWorldPosWithinBounds(m, p, radius_world) THEN FALSE
    ELSE IF radius_world <= 0 THEN IsWorldPosWalkable(m, p)
    ELSE \A c \in ScannedCells(m, p, radius_world) :
            ~CellRejects(m, p, radius_world, c[1], c[2])

----------------------------------------------------------------------------
(* Swept movement: CollisionMap::try_move_circle *)

\* desired_end - start, over the common denominator
Delta(start, desired_end) ==
    [x |-> desired_end.x * start.d - start.x * desired_end.d,
     y |-> desired_end.y * start.d - start.y * desired_end.d,
     d |-> start.d * desired_end.d]

\* delta.length() < 0.001 world units, i.e. < 1/3200 model units
EPSILON_DEN == 3200

\* mutant: no early return for a displacement below the epsilon
BelowEpsilonNever(delta) == FALSE

BelowEpsilon(delta) ==
    \/ delta.x = 0 /\ delta.y = 0
    \/ /\ Abs(delta.x) * EPSILON_DEN < delta.d
       /\ Abs(delta.y) * EPSILON_DEN < delta.d
       /\ EPSILON_DEN * EPSILON_DEN * (delta.x * delta.x + delta.y * delta.y)
             < delta.d * delta.d

\* mutant: sub-steps of up to half a cell
MaxStepHalfCell(m) == m.tile_size \div 2

MaxStep(m) == m.tile_size \div 4

I32_MAX == 2147483647

\* (delta_len / max_step).ceil().max(1.0) as i32: the least n >= 1 with
\* n * max_step >= delta_len; the cast saturates at i32::MAX.
\* mutant: the displacement is taken in one step
StepCountOne(m, delta) == 1

StepCount(m, delta) ==
    LET s == delta.x * delta.x + delta.y * delta.y
        q == MaxStep(m) * delta.d
        Enough(n) == n * n * q * q >= s
        top == (Abs(delta.x) + Abs(delta.y)) \div q + 1
    IN Min(I32_MAX, CHOOSE n \in 1..top : Enough(n) /\ (n = 1 \/ ~Enough(n - 1)))

\* the loop of map.rs:122-142 with `left` iterations to go; p and step_v
\* share one denominator
RECURSIVE MoveLoop(_, _, _, _, _)
MoveLoop(m, p, step_v, radius_world, left) ==
    IF left = 0 THEN p
    ELSE LET candidate == [p EXCEPT !.x = p.x + step_v.x, !.y = p.y + step_v.y]
             try_x == [p EXCEPT !.x = candidate.x]
             try_y == [p EXCEPT !.y = candidate.y]
         IN IF IsWorldPosClearCircle(m, candidate, radius_world)
            THEN MoveLoop(m, candidate, step_v, radius_world, left - 1)
            ELSE IF IsWorldPosClearCircle(m, try_x, radius_world)
            THEN MoveLoop(m, try_x, step_v, radius_world, left - 1)
            ELSE IF IsWorldPosClearCircle(m, try_y, radius_world)
            THEN MoveLoop(m, try_y, step_v, radius_world, left - 1)
            ELSE p

\* mutant: the Y slide is tried before the X slide
SlideStepYFirst(m, p, step_v, radius_world) ==
    LET candidate == [p EXCEPT !.x = p.x + step_v.x, !.y = p.y + step_v.y]
        try_x == [p EXCEPT !.x = candidate.x]
        try_y == [p EXCEPT !.y = candidate.y]
    IN IF IsWorldPosClearCircle(m, candidate, radius_world)
       THEN [p |-> candidate, branch |-> "full", queries |-> 1, go |-> TRUE]
       ELSE IF IsWorldPosClearCircle(m, try_y, radius_world)
       THEN [p |-> try_y, branch |-> "slide_y", queries |-> 2, go |-> TRUE]
       ELSE IF IsWorldPosClearCircle(m, try_x, radius_world)
       THEN [p |-> try_x, branch |-> "slide_x", queries |-> 3, go |-> TRUE]
       ELSE [p |-> p, branch |-> "stop", queries |-> 3, go |-> FALSE]

\* mutant: the X slide is tried before the full step
SlideStepSlideFirst(m, p, step_v, radius_world) ==
    LET candidate == [p EXCEPT !.x = p.x + step_v.x, !.y = p.y + step_v.y]
        try_x == [p EXCEPT !.x = candidate.x]
        try_y == [p EXCEPT !.y = candidate.y]
    IN IF IsWorldPosClearCircle(m, try_x, radius_world)
       THEN [p |-> try_x, branch |-> "slide_x", queries |-> 1, go |-> TRUE]
       ELSE IF IsWorldPosClearCircle(m, candidate, radius_world)
       THEN [p |-> candidate, branch |-> "full", queries |-> 2, go |-> TRUE]
       ELSE IF IsWorldPosClearCircle(m, try_y, radius_world)
       THEN [p |-> try_y, branch |-> "slide_y", queries |-> 3, go |-> TRUE]
       ELSE [p |-> p, branch |-> "stop", queries |-> 3, go |-> FALSE]

\* mutant: the Y slide is taken without being tested
SlideStepUntestedY(m, p, step_v, radius_world) ==
    LET candidate == [p EXCEPT !.x = p.x + step_v.x, !.y = p.y + step_v.y]
        try_x == [p EXCEPT !.x = candidate.x]
        try_y == [p EXCEPT !.y = candidate.y]
    IN IF IsWorldPosClearCircle(m, candidate, radius_world)
       THEN [p |-> candidate, branch |-> "full", queries |-> 1, go |-> TRUE]
       ELSE IF IsWorldPosClearCircle(m, try_x, radius_world)
       THEN [p |-> try_x, branch |-> "slide_x", queries |-> 2, go |-> TRUE]
       ELSE [p |-> try_y, branch |-> "slide_y", queries |-> 2, go |-> TRUE]

\* mutant: a blocked full step ends the loop, no slide is tried
SlideStepNoSlide(m, p, step_v, radius_world) ==
    LET candidate == [p EXCEPT !.x = p.x + step_v.x, !.y = p.y + step_v.y]
    IN IF IsWorldPosClearCircle(m, candidate, radius_world)
       THEN [p |-> candidate, branch |-> "full", queries |-> 1, go |-> TRUE]
       ELSE [p |-> p, branch |-> "stop", queries |-> 1, go |-> FALSE]

\* one iteration of the loop of map.rs:122-142: the new p, the branch taken,
\* the circle queries made, and whether the loop goes on (FALSE at `break`)
SlideStep(m, p, step_v, radius_world) ==
    LET candidate == [p EXCEPT !.x = p.x + step_v.x, !.y = p.y + step_v.y]
        try_x == [p EXCEPT !.x = candidate.x]
        try_y == [p EXCEPT !.y = candidate.y]
    IN IF IsWorldPosClearCircle(m, candidate, radius_world)
       THEN [p |-> candidate, branch |-> "full", queries |-> 1, go |-> TRUE]
       ELSE IF IsWorldPosClearCircle(m, try_x, radius_world)
       THEN [p |-> try_x, branch |-> "slide_x", queries |-> 2, go |-> TRUE]
       ELSE IF IsWorldPosClearCircle(m, try_y, radius_world)
       THEN [p |-> try_y, branch |-> "slide_y", queries |-> 3, go |-> TRUE]
       ELSE [p |-> p, branch |-> "stop", queries |-> 3, go |-> FALSE]

TryMoveCircle(m, start, desired_end, radius_world) ==
    LET delta == Delta(start, desired_end) IN
    IF BelowEpsilon(delta) THEN start
    ELSE LET steps == StepCount(m, delta)
             \* start and delta / steps over the denominator delta.d * steps
             p0 == [x |-> start.x * desired_end.d * steps,
                    y |-> start.y * desired_end.d * steps,
                    d |-> delta.d * steps]
             step_v == [x |-> delta.x, y |-> delta.y]
         IN MoveLoop(m, p0, step_v, radius_world, steps)

\* equality of two points
SamePoint(a, b) == a.x * b.d = b.x * a.d /\ a.y * b.d = b.y * a.d

----------------------------------------------------------------------------
(* Grid builder: build_collision_map and convert_water_edges_to_shore *)

\* -TILE_SIZE * GRID_X / 2.0 and -TILE_SIZE * GRID_Y / 2.0
GridOriginX == -((TILE_SIZE * GRID_X) \div 2)
GridOriginY == -((TILE_SIZE * GRID_Y) \div 2)

\* grid_x, grid_y of a tile: floor((world - grid_origin) / TILE_SIZE)
Footprint(ob) ==
    <<Floor(ob.x - GridOriginX, TILE_SIZE), Floor(ob.y - GridOriginY, TILE_SIZE)>>

SetMin(S) == CHOOSE a \in S : \A b \in S : a <= b
SetMax(S) == CHOOSE a \in S : \A b \in S : a >= b

\* min_x, max_x, min_y, max_y of generate.rs:116-126 (obs is not empty)
TileBounds(obs) ==
    LET fx == {Footprint(obs[i])[1] : i \in 1..Len(obs)}
        fy == {Footprint(obs[i])[2] : i \in 1..Len(obs)}
    IN [min_x |-> SetMin(fx), max_x |-> SetMax(fx),
        min_y |-> SetMin(fy), max_y |-> SetMax(fy)]

\* mutant: the last tile seen at a footprint wins, whatever its z
RECURSIVE TrackLayersLastWins(_, _, _)
TrackLayersLastWins(obs, i, tracker) ==
    IF i > Len(obs) THEN tracker
    ELSE LET key == Footprint(obs[i]) IN
         TrackLayersLastWins(obs, i + 1,
                    [k \in DOMAIN tracker \cup {key} |->
                        IF k = key THEN [tile_type |-> obs[i].tile_type, z |-> obs[i].z]
                        ELSE tracker[k]])

\* mutant: the first tile seen at a footprint stays, whatever comes later
RECURSIVE TrackLayersFirstWins(_, _, _)
TrackLayersFirstWins(obs, i, tracker) ==
    IF i > Len(obs) THEN tracker
    ELSE LET key == Footprint(obs[i]) IN
         IF key \in DOMAIN tracker
         THEN TrackLayersFirstWins(obs, i + 1, tracker)
         ELSE TrackLayersFirstWins(obs, i + 1,
                    [k \in DOMAIN tracker \cup {key} |->
                        IF k = key THEN [tile_type |-> obs[i].tile_type, z |-> obs[i].z]
                        ELSE tracker[k]])

\* layer_tracker after the loop of generate.rs:156-179 has seen obs[i..]
RECURSIVE TrackLayers(_, _, _)
TrackLayers(obs, i, tracker) ==
    IF i > Len(obs) THEN tracker
    ELSE LET key == Footprint(obs[i]) IN
         IF key \in DOMAIN tracker /\ obs[i].z <= tracker[key].z
         THEN TrackLayers(obs, i + 1, tracker)
         ELSE TrackLayers(obs, i + 1,
                    [k \in DOMAIN tracker \cup {key} |->
                        IF k = key THEN [tile_type |-> obs[i].tile_type, z |-> obs[i].z]
                        ELSE tracker[k]])

\* the loop of generate.rs:186-193: one set_tile per tracked footprint
RECURSIVE WriteTracked(_, _, _, _, _)
WriteTracked(m, tracker, keys, min_x, min_y) ==
    IF keys = {} THEN m
    ELSE LET key == CHOOSE k \in keys : TRUE
             local_x == key[1] - min_x
             local_y == key[2] - min_y
         IN WriteTracked(SetTile(m, local_x, local_y, tracker[key].tile_type),
                         tracker, keys \ {key}, min_x, min_y)

\* mutant: the extent is max - min, one column and one row short
FlattenTilesNoPlusOne(obs) ==
    LET b == TileBounds(obs)
        actual_width == b.max_x - b.min_x
        actual_height == b.max_y - b.min_y
        m0 == WithOrigin(actual_width, actual_height, TILE_SIZE, GridOriginX, GridOriginY)
        tracker == TrackLayers(obs, 1, [k \in {} |-> TRUE])
    IN WriteTracked(m0, tracker, DOMAIN tracker, b.min_x, b.min_y)

\* the map of generate.rs:145-193, before the shoreline pass
FlattenTiles(obs) ==
    LET b == TileBounds(obs)
        actual_width == b.max_x - b.min_x + 1
        actual_height == b.max_y - b.min_y + 1
        m0 == WithOrigin(actual_width, actual_height, TILE_SIZE, GridOriginX, GridOriginY)
        tracker == TrackLayers(obs, 1, [k \in {} |-> TRUE])
    IN WriteTracked(m0, tracker, DOMAIN tracker, b.min_x, b.min_y)

\* the neighbours array of generate.rs:320-329
Neighbors8(x, y) ==
    {<<x - 1, y>>, <<x + 1, y>>, <<x, y - 1>>, <<x, y + 1>>,
     <<x - 1, y - 1>>, <<x + 1, y - 1>>, <<x - 1, y + 1>>, <<x + 1, y + 1>>}

Neighbors4(x, y) == {<<x - 1, y>>, <<x + 1, y>>, <<x, y - 1>>, <<x, y + 1>>}

\* mutant: every blocking cell with a walkable neighbour is collected
ShoresToCreateAnyBlocking(m) ==
    { c \in (0..(m.width - 1)) \X (0..(m.height - 1)) :
        /\ ~TileIsWalkable(GetTileAt(m, c[1], c[2]))
        /\ \E n \in Neighbors8(c[1], c[2]) :
              InBounds(m, n[1], n[2]) /\ TileIsWalkable(GetTileAt(m, n[1], n[2])) }

\* shores_to_create of generate.rs:307-342, read on the map as passed in
ShoresToCreate(m) ==
    { c \in (0..(m.width - 1)) \X (0..(m.height - 1)) :
        /\ GetTileAt(m, c[1], c[2]) = "Water"
        /\ \E n \in Neighbors8(c[1], c[2]) :
              InBounds(m, n[1], n[2]) /\ TileIsWalkable(GetTileAt(m, n[1], n[2])) }

RECURSIVE SetTiles(_, _, _)
SetTiles(m, cells, tile_type) ==
    IF cells = {} THEN m
    ELSE LET c == CHOOSE k \in cells : TRUE
         IN SetTiles(SetTile(m, c[1], c[2], tile_type), cells \ {c}, tile_type)

\* mutant: only the four orthogonal neighbours are inspected
ConvertWaterEdgesToShore4(m) ==
    SetTiles(m, { c \in (0..(m.width - 1)) \X (0..(m.height - 1)) :
                    /\ GetTileAt(m, c[1], c[2]) = "Water"
                    /\ \E n \in Neighbors4(c[1], c[2]) :
                          InBounds(m, n[1], n[2])
                          /\ TileIsWalkable(GetTileAt(m, n[1], n[2])) }, "Shore")

\* mutant: each Water cell is rewritten as soon as it is found, so cells
\* scanned later see the Shore cells made earlier in the same pass
RECURSIVE ConvertWaterEdgesToShoreInPlace(_, _)
ConvertWaterEdgesToShoreInPlace(m, k) ==
    IF k >= m.width * m.height THEN m
    ELSE LET x == k % m.width
             y == k \div m.width
         IN IF <<x, y>> \in ShoresToCreate(m)
            THEN ConvertWaterEdgesToShoreInPlace(SetTile(m, x, y, "Shore"), k + 1)
            ELSE ConvertWaterEdgesToShoreInPlace(m, k + 1)

\* mutant: the pass of generate.rs:306-353 done in place, from cell (0, 0)
ConvertWaterEdgesToShoreEager(m) == ConvertWaterEdgesToShoreInPlace(m, 0)

ConvertWaterEdgesToShore(m) == SetTiles(m, ShoresToCreate(m), "Shore")

\* the grid build_collision_map inserts for a non-empty tile query
BuildGrid(obs) == ConvertWaterEdgesToShore(FlattenTiles(obs))

----------------------------------------------------------------------------
(* Spawn search: find_walkable_spawn_position *)

\* world position of the centre of cell (x, y): the player's translation
CellCenter(m, x, y) ==
    Vec2(m.grid_origin_x + x * m.tile_size + m.tile_size \div 2,
         m.grid_origin_y + y * m.tile_size + m.tile_size \div 2)

\* the feet point of a player whose translation is pos
FeetOf(pos) == [pos EXCEPT !.y = pos.y - FEET_OFFSET * pos.d]

\* mutant: the candidate cell itself is tested for walkability, not the
\* collider circle at the feet
CandidateClearByCell(m, x, y) == IsWalkable(m, x, y)

\* the test of systems.rs:97, 118 and 136 for the candidate cell (x, y)
CandidateClear(m, x, y) ==
    IsWorldPosClearCircle(m, FeetOf(CellCenter(m, x, y)), COLLIDER_RADIUS)

CenterCell(m) == <<m.width \div 2, m.height \div 2>>

\* mutant: `||` for `&&` in the perimeter test, only the four corners of a
\* ring are visited
RingVisitsCornersOnly(m) ==
    LET c == CenterCell(m)
        rings == 1..(Min(m.width, m.height) \div 2)
    IN { v \in UNION { {<<r, dx, dy>> : dx \in (-r)..r, dy \in (-r)..r} : r \in rings } :
           /\ ~(Abs(v[2]) # v[1] \/ Abs(v[3]) # v[1])
           /\ InBounds(m, c[1] + v[2], c[2] + v[3]) }

\* the (radius, dx, dy) triples the loops of systems.rs:102-108 reach, i.e.
\* the perimeter of every ring, whose cell is in bounds
RingVisits(m) ==
    LET c == CenterCell(m)
        rings == 1..(Min(m.width, m.height) \div 2)
    IN { v \in UNION { {<<r, dx, dy>> : dx \in (-r)..r, dy \in (-r)..r} : r \in rings } :
           /\ ~(Abs(v[2]) # v[1] /\ Abs(v[3]) # v[1])
           /\ InBounds(m, c[1] + v[2], c[2] + v[3]) }

\* loop order: radius, then dx, then dy
VisitBefore(a, b) ==
    \/ a[1] < b[1]
    \/ a[1] = b[1] /\ a[2] < b[2]
    \/ a[1] = b[1] /\ a[2] = b[2] /\ a[3] < b[3]

\* the ring visits whose candidate is clear
RingHits(m) ==
    LET c == CenterCell(m)
    IN { v \in RingVisits(m) : CandidateClear(m, c[1] + v[2], c[2] + v[3]) }

\* Every value the function can return.  The random fallback draws
\* RANDOM_TRIES cells: it returns the first clear one drawn (any clear cell
\* can be that one), or the centre when every draw is blocked (any blocked
\* cell can be drawn every time).
FindWalkableSpawnPosition(m) ==
    LET c == CenterCell(m)
        center == CellCenter(m, c[1], c[2])
        hits == RingHits(m)
        cells == (0..(m.width - 1)) \X (0..(m.height - 1))
    IN IF CandidateClear(m, c[1], c[2]) THEN {center}
       ELSE IF hits # {}
       THEN LET first == CHOOSE v \in hits : \A w \in hits : w = v \/ VisitBefore(v, w)
            IN {CellCenter(m, c[1] + first[2], c[2] + first[3])}
       ELSE { CellCenter(m, k[1], k[2]) :
                 k \in { k \in cells : RANDOM_TRIES > 0 /\ CandidateClear(m, k[1], k[2]) } }
            \cup (IF RANDOM_TRIES = 0 \/ \E k \in cells : ~CandidateClear(m, k[1], k[2])
                  THEN {center} ELSE {})

----------------------------------------------------------------------------
(* Grids and idle world used to exercise single functions *)

MaxBlocked == 2

Blocking == {"Water", "Tree", "Rock"}

\* every w x h grid of the categories cats with at most MaxBlocked blocking cells
GridsOf(w, h, cats, ox, oy) ==
    { [tiles |-> t, width |-> w, height |-> h, tile_size |-> TILE_SIZE,
       grid_origin_x |-> ox, grid_origin_y |-> oy] :
        t \in { f \in [1..(w * h) -> cats] :
                  Cardinality({i \in 1..(w * h) : f[i] \in Blocking}) <= MaxBlocked } }

WorldIdle ==
    /\ tiles = <<>>
    /\ built = FALSE
    /\ map = NoMap
    /\ queue = <<>>
    /\ player = NoPlayer
    /\ player_spawned = FALSE
    /\ ran = {}
    /\ builds = 0
    /\ waited = FALSE

----------------------------------------------------------------------------
(* Spec: the Update schedule, frame by frame.  Every system runs once per  *)
(* frame, in any order; the Commands they issue are applied when the frame *)
(* ends.  The tile generator is external: its tiles appear between frames. *)

Systems == {"build_collision_map", "spawn_player", "move_player", "debug"}

MaxLifeTiles == 3

\* tiles the generator may emit: Grass at footprints (0,0), (0,1), (1,0)
\* and a Rock at (1,1)
LifeTileSet ==
    {[x |-> GridOriginX + 10, y |-> GridOriginY + 10, z |-> 1, tile_type |-> "Grass"],
     [x |-> GridOriginX + 10, y |-> GridOriginY + 30, z |-> 1, tile_type |-> "Grass"],
     [x |-> GridOriginX + 30, y |-> GridOriginY + 10, z |-> 1, tile_type |-> "Grass"],
     [x |-> GridOriginX + 30, y |-> GridOriginY + 30, z |-> 4, tile_type |-> "Rock"]}

\* direction * MOVE_SPEED * delta_secs of a frame with no key or one arrow
\* key held: nothing, or a quarter tile along an axis
FrameDeltas ==
    {<<0, 0>>, <<-5, 0>>, <<5, 0>>, <<0, -5>>, <<0, 5>>}

RECURSIVE Gcd(_, _)
Gcd(a, b) == IF b = 0 THEN a ELSE Gcd(b, a % b)

\* the same point with the least denominator
Reduced(p) ==
    LET g == Gcd(Gcd(Abs(p.x), Abs(p.y)), p.d)
    IN [x |-> p.x \div g, y |-> p.y \div g, d |-> p.d \div g]

Init ==
    /\ WorldIdle
    /\ call = NoCall
    /\ ret = NoRet

\* the external generator spawns a tile entity
GeneratorSpawn ==
    /\ ran = {}
    /\ Len(tiles) < MaxLifeTiles
    /\ \E ob \in LifeTileSet :
          /\ \A i \in 1..Len(tiles) : tiles[i] # ob
          /\ tiles' = Append(tiles, ob)
    /\ UNCHANGED <<built, map, queue, player, player_spawned, ran, builds, waited, call, ret>>

\* mutant: the flag is never consulted
AlreadyBuiltNever == FALSE

\* generate.rs:97
AlreadyBuilt == built

\* mutant: a single tile does not count as "tiles exist"
NoTilesYetOffByOne == Len(tiles) <= 1

\* generate.rs:102-103
NoTilesYet == Len(tiles) = 0

\* the system build_collision_map
BuildCollisionMap ==
    /\ "build_collision_map" \notin ran
    /\ ran' = ran \cup {"build_collision_map"}
    /\ IF AlreadyBuilt
       THEN UNCHANGED <<built, queue, builds, waited>>
       ELSE IF NoTilesYet
       THEN /\ waited' = TRUE
            /\ UNCHANGED <<built, queue, builds>>
       ELSE /\ queue' = Append(queue, [cmd |-> "insert_resource", map |-> BuildGrid(tiles)])
            /\ built' = TRUE
            /\ builds' = builds + 1
            /\ UNCHANGED waited
    /\ UNCHANGED <<tiles, map, player, player_spawned, call, ret>>

\* mutant: the map is not waited for; without one the player is put at the
\* world origin, the else arm of systems.rs:46-49
SpawnPlayerUngated ==
    /\ "spawn_player" \notin ran
    /\ ran' = ran \cup {"spawn_player"}
    /\ IF player_spawned \/ player # NoPlayer
       THEN UNCHANGED <<queue, player_spawned>>
       ELSE \E spawn_pos \in (IF map = NoMap THEN {Vec2(0, 0)}
                               ELSE FindWalkableSpawnPosition(map)) :
               /\ queue' = Append(queue, [cmd |-> "spawn", pos |-> spawn_pos])
               /\ player_spawned' = TRUE
    /\ UNCHANGED <<tiles, built, map, player, builds, waited, call, ret>>

\* the system spawn_player
SpawnPlayer ==
    /\ "spawn_player" \notin ran
    /\ ran' = ran \cup {"spawn_player"}
    /\ IF player_spawned \/ player # NoPlayer
       THEN UNCHANGED <<queue, player_spawned>>
       ELSE IF map = NoMap
       THEN UNCHANGED <<queue, player_spawned>>
       ELSE \E spawn_pos \in FindWalkableSpawnPosition(map) :
               /\ queue' = Append(queue, [cmd |-> "spawn", pos |-> spawn_pos])
               /\ player_spawned' = TRUE
    /\ UNCHANGED <<tiles, built, map, player, builds, waited, call, ret>>

\* move_player's body for one frame's displacement: the player's new
\* translation
MovedPlayer(delta) ==
    IF delta = <<0, 0>>
    THEN player
    ELSE LET current_center == player
             new_center == [player EXCEPT !.x = player.x + delta[1] * player.d,
                                          !.y = player.y + delta[2] * player.d]
             current_feet == FeetOf(current_center)
             desired_feet == FeetOf(new_center)
             new_feet == IF map # NoMap
                         THEN TryMoveCircle(map, current_feet, desired_feet,
                                            COLLIDER_RADIUS)
                         ELSE desired_feet
             moved == [new_feet EXCEPT !.y = new_feet.y + FEET_OFFSET * new_feet.d]
         IN IF ~SamePoint(moved, current_center)
            THEN Reduced(moved)
            ELSE player

\* the system move_player
MovePlayer ==
    /\ "move_player" \notin ran
    /\ ran' = ran \cup {"move_player"}
    /\ IF player = NoPlayer
       THEN UNCHANGED player
       ELSE player' \in {MovedPlayer(delta) : delta \in FrameDeltas}
    /\ UNCHANGED <<tiles, built, map, queue, player_spawned, builds, waited, call, ret>>

\* the debug systems (debug_draw_collision, debug_player_position,
\* debug_log_tile_info): they read the map and the player
DebugSystems ==
    /\ "debug" \notin ran
    /\ ran' = ran \cup {"debug"}
    /\ UNCHANGED <<tiles, built, map, queue, player, player_spawned, builds, waited, call, ret>>

\* the world after the commands of cmds[i..] are applied to <<map, player>>
RECURSIVE Applied(_, _, _)
Applied(cmds, i, w) ==
    IF i > Len(cmds) THEN w
    ELSE Applied(cmds, i + 1,
                 IF cmds[i].cmd = "insert_resource"
                 THEN [w EXCEPT !.map = cmds[i].map]
                 ELSE [w EXCEPT !.player = cmds[i].pos])

\* the end of the Update schedule: the queued Commands are applied
EndFrame ==
    /\ ran = Systems
    /\ LET w == Applied(queue, 1, [map |-> map, player |-> player])
       IN map' = w.map /\ player' = w.player
    /\ queue' = <<>>
    /\ ran' = {}
    /\ UNCHANGED <<tiles, built, player_spawned, builds, waited, call, ret>>

Next ==
    \/ GeneratorSpawn
    \/ BuildCollisionMap
    \/ SpawnPlayer
    \/ MovePlayer
    \/ DebugSystems
    \/ EndFrame

Spec == Init /\ [][Next]_vars

\* a step in which the system sys takes its turn in the frame; under Next
\* it is a step of that system's action
RunsSystem(sys) ==
    sys \notin ran /\ ran' = ran \cup {sys}

\* the schedule runs every system in every frame and ends every frame
FairSpec ==
    /\ Spec
    /\ \A sys \in Systems : WF_ran(RunsSystem(sys))
    /\ WF_vars(EndFrame)

----------------------------------------------------------------------------
(* SpecQuery: is_world_pos_clear_circle on drawn grids, centres and radii *)

QueryGrids == GridsOf(2, 2, {"Grass", "Water", "Tree", "Rock"}, -30, 10)

QueryOffsetsX == {-1, 0, 1, 4, 5, 6, 13, 14, 15, 16, 19, 20, 21, 24, 25, 26, 34, 35, 36, 39, 40, 41}
QueryOffsetsY == {-1, 5, 14, 16, 20, 25, 35, 41}
QueryRadii == {4, 5}

QueryInit ==
    /\ WorldIdle
    /\ ret = NoRet
    /\ \E g \in QueryGrids, ox \in QueryOffsetsX, oy \in QueryOffsetsY, r \in QueryRadii :
          call = [fn |-> "is_world_pos_clear_circle", m |-> g,
                  p |-> Vec2(g.grid_origin_x + ox, g.grid_origin_y + oy),
                  radius |-> r]

ClearCircleCall ==
    /\ call.fn = "is_world_pos_clear_circle"
    /\ ~ret.done
    /\ ret' = [done |-> TRUE, value |-> IsWorldPosClearCircle(call.m, call.p, call.radius)]
    /\ UNCHANGED <<world, call>>

QueryNext == ClearCircleCall

SpecQuery == QueryInit /\ [][QueryNext]_vars

QueryDone == call.fn = "is_world_pos_clear_circle" /\ ret.done

\* the bounding square of the query leaves the grid's world extent on some side
SquareExitsExtent(m, p, r) ==
    \/ p.x - r * p.d < m.grid_origin_x * p.d
    \/ p.x + r * p.d > (m.grid_origin_x + m.width * m.tile_size) * p.d
    \/ p.y - r * p.d < m.grid_origin_y * p.d
    \/ p.y + r * p.d > (m.grid_origin_y + m.height * m.tile_size) * p.d

\* C2: a query with radius > 0 whose bounding square leaves the grid's world
\* extent is answered false (blocked), whatever the cells hold.
C2_FailClosedBounds ==
    (QueryDone /\ call.radius > 0 /\ SquareExitsExtent(call.m, call.p, call.radius))
        => ret.value = FALSE

\* a query overhanging the grid, over a grid with no blocking cell, was answered
C2_Witness ==
    /\ QueryDone
    /\ call.radius > 0
    /\ SquareExitsExtent(call.m, call.p, call.radius)
    /\ \A i \in DOMAIN call.m.tiles : call.m.tiles[i] = "Grass"
    /\ ret.value = FALSE

\* some blocking cell of the grid is within its effective radius of the centre
SomeBlockingCellOverlaps(m, p, r) ==
    \E gx \in 0..(m.width - 1), gy \in 0..(m.height - 1) :
        LET t == GetTileAt(m, gx, gy) IN
        /\ ~TileIsWalkable(t)
        /\ CircleIntersectsTile(m, p, EffectiveRadius(m, t, r), gx, gy)

\* C3: an in-bounds query with radius > 0 is answered false whenever some
\* non-walkable cell has its closest point within that cell's effective
\* radius (radius for Water, radius + 5% of the cell for Tree and Rock).
C3_EveryOverlapDetected ==
    (/\ QueryDone
     /\ call.radius > 0
     /\ ~SquareExitsExtent(call.m, call.p, call.radius)
     /\ SomeBlockingCellOverlaps(call.m, call.p, call.radius))
        => ret.value = FALSE

----------------------------------------------------------------------------
(* SpecMove: try_move_circle across a one-cell-wide Water column *)

\* 3 x 2 grids whose middle column is Water at every row; the other
\* cells are Grass with at most MaxBlocked Rock cells
MoveGrids ==
    { [tiles |-> t, width |-> 3, height |-> 2, tile_size |-> TILE_SIZE,
       grid_origin_x |-> -30, grid_origin_y |-> 10] :
        t \in { f \in [1..6 -> {"Grass", "Water", "Rock"}] :
                  /\ \A i \in 1..6 : (f[i] = "Water") <=> ((i - 1) % 3 = 1)
                  /\ Cardinality({i \in 1..6 : f[i] = "Rock"}) <= MaxBlocked } }

MoveStartsX == {5, 8, 10, 15, 19, 40, 41, 45, 50, 52, 55}
MoveStartsY == {5, 10, 20, 30, 35}
MoveEndsX == {-200, 0, 10, 19, 20, 25, 39, 40, 41, 50, 55, 100, 330}
MoveEndsY == {5, 10, 20, 33}
MoveRadii == {0, 5}

MoveInit ==
    /\ WorldIdle
    /\ ret = NoRet
    /\ \E g \in MoveGrids, sx \in MoveStartsX, sy \in MoveStartsY,
          ex \in MoveEndsX, ey \in MoveEndsY, r \in MoveRadii :
          call = [fn |-> "try_move_circle", m |-> g,
                  start |-> Vec2(g.grid_origin_x + sx, g.grid_origin_y + sy),
                  desired_end |-> Vec2(g.grid_origin_x + ex, g.grid_origin_y + ey),
                  radius |-> r]

TryMoveCall ==
    /\ call.fn = "try_move_circle"
    /\ ~ret.done
    /\ ret' = [done |-> TRUE,
               value |-> TryMoveCircle(call.m, call.start, call.desired_end, call.radius)]
    /\ UNCHANGED <<world, call>>

MoveNext == TryMoveCall

SpecMove == MoveInit /\ [][MoveNext]_vars

MoveDone == call.fn = "try_move_circle" /\ ret.done

\* column c of m is Water at every row
IsWaterColumn(m, c) == \A gy \in 0..(m.height - 1) : GetTileAt(m, c, gy) = "Water"

\* world x of the low and high edge of column c
ColumnLow(m, c) == m.grid_origin_x + c * m.tile_size
ColumnHigh(m, c) == m.grid_origin_x + (c + 1) * m.tile_size

\* C1: from a clear start, a displacement whose straight path crosses a full
\* height, one-cell-wide Water column ends on the start side of the column,
\* never inside or beyond it, for radius >= 0 and any displacement length.
C1_SweepNonTunneling ==
    (/\ MoveDone
     /\ call.radius >= 0
     /\ IsWorldPosClearCircle(call.m, call.start, call.radius))
        => \A c \in 0..(call.m.width - 1) :
              IsWaterColumn(call.m, c)
                 => LET lo == ColumnLow(call.m, c)
                        hi == ColumnHigh(call.m, c)
                        s == call.start
                        e == call.desired_end
                        v == ret.value
                    IN /\ (s.x < lo * s.d /\ e.x >= lo * e.d) => v.x < lo * v.d
                       /\ (s.x >= hi * s.d /\ e.x < hi * e.d) => v.x >= hi * v.d

\* a clear start left of the column, an end more than two cells beyond it:
\* the move advanced towards the column and stopped before it
C1_Witness ==
    /\ MoveDone
    /\ IsWaterColumn(call.m, 1)
    /\ IsWorldPosClearCircle(call.m, call.start, call.radius)
    /\ call.start.x < ColumnLow(call.m, 1)
    /\ call.desired_end.x > ColumnHigh(call.m, 1) + 2 * call.m.tile_size
    /\ ret.value.x > call.start.x * ret.value.d
    /\ ret.value.x < ColumnLow(call.m, 1) * ret.value.d

----------------------------------------------------------------------------
(* SpecBuild: the grid build on drawn tile sequences *)

MaxTiles == 3

\* terrain layers: a tile's z is its layer; Dirt and Grass share one here
TileKinds ==
    {[tile_type |-> "Dirt", z |-> 1], [tile_type |-> "Grass", z |-> 1],
     [tile_type |-> "Water", z |-> 3], [tile_type |-> "Rock", z |-> 4]}

\* world positions with footprints -1 and 0 in x (a tile left of the nominal
\* grid), 0 and 1 in y
TileXs == {GridOriginX - 10, GridOriginX + 10}
TileYs == {GridOriginY + 10, GridOriginY + 39}

TileSet ==
    { [x |-> x, y |-> y, z |-> k.z, tile_type |-> k.tile_type] :
        x \in TileXs, y \in TileYs, k \in TileKinds }

TileSeqs == UNION { [1..n -> TileSet] : n \in 1..MaxTiles }

BuildInit ==
    /\ WorldIdle
    /\ ret = NoRet
    /\ \E obs \in TileSeqs : call = [fn |-> "build_grid", obs |-> obs]

BuildGridCall ==
    /\ call.fn = "build_grid"
    /\ ~ret.done
    /\ ret' = [done |-> TRUE, value |-> BuildGrid(call.obs),
               flat |-> FlattenTiles(call.obs)]
    /\ UNCHANGED <<world, call>>

BuildNext == BuildGridCall

SpecBuild == BuildInit /\ [][BuildNext]_vars

BuildDone == call.fn = "build_grid" /\ ret.done

\* no two tiles of obs at one footprint have the same z
NoEqualZ(obs) ==
    \A i, j \in 1..Len(obs) :
        (i # j /\ Footprint(obs[i]) = Footprint(obs[j])) => obs[i].z # obs[j].z

Reordered(obs, pi) == [i \in 1..Len(obs) |-> obs[pi[i]]]

\* C5: when no two tiles at one footprint share a z, every iteration order
\* of the same tiles builds the same grid.
C5_OrderIndependent ==
    (BuildDone /\ NoEqualZ(call.obs))
        => \A pi \in Permutations(1..Len(call.obs)) :
              BuildGrid(Reordered(call.obs, pi)) = ret.value

\* Water (z = 3) seen before Dirt (z = 1) at one footprint: the cell is Water
C5_Witness ==
    /\ BuildDone
    /\ Len(call.obs) = 2
    /\ Footprint(call.obs[1]) = Footprint(call.obs[2])
    /\ call.obs[1].tile_type = "Water" /\ call.obs[1].z = 3
    /\ call.obs[2].tile_type = "Dirt" /\ call.obs[2].z = 1
    /\ ret.value.tiles = <<"Water">>

\* some in-bounds 8-connected neighbour of (x, y) is walkable in m
HasWalkableNeighbour(m, x, y) ==
    \E dx \in {-1, 0, 1}, dy \in {-1, 0, 1} :
        /\ ~(dx = 0 /\ dy = 0)
        /\ x + dx >= 0 /\ x + dx < m.width
        /\ y + dy >= 0 /\ y + dy < m.height
        /\ TileIsWalkable(m.tiles[(y + dy) * m.width + (x + dx) + 1])

\* C6: in the built grid a cell that was Water before the shoreline pass is
\* Shore if it had an in-bounds walkable 8-neighbour, and still Water if it
\* had none.
C6_ShorelineRule ==
    BuildDone
        => LET pre == FlattenTiles(call.obs)
               post == ret.value
           IN \A x \in 0..(pre.width - 1), y \in 0..(pre.height - 1) :
                 GetTileAt(pre, x, y) = "Water"
                    => GetTileAt(post, x, y) =
                          (IF HasWalkableNeighbour(pre, x, y) THEN "Shore" ELSE "Water")

\* a Water cell whose orthogonal neighbours are blocking and whose diagonal
\* neighbour is walkable (an Empty cell no tile covers) was turned Shore
C6_Witness ==
    /\ BuildDone
    /\ LET pre == FlattenTiles(call.obs) IN
       /\ pre.width = 2 /\ pre.height = 2
       /\ GetTileAt(pre, 0, 0) = "Water"
       /\ GetTileAt(pre, 1, 0) = "Rock"
       /\ GetTileAt(pre, 0, 1) = "Rock"
       /\ GetTileAt(pre, 1, 1) = "Empty"
       /\ GetTileAt(ret.value, 0, 0) = "Shore"

\* C7: the cell world_to_grid gives for a tile's world position is the cell
\* the tile's footprint was written to.
C7_OriginAlignment ==
    BuildDone
        => LET b == TileBounds(call.obs) IN
           \A i \in 1..Len(call.obs) :
              LET ob == call.obs[i]
                  g == WorldToGrid(ret.value, Vec2(ob.x, ob.y))
              IN /\ g.x = Footprint(ob)[1] - b.min_x
                 /\ g.y = Footprint(ob)[2] - b.min_y

----------------------------------------------------------------------------
(* SpecSpawn: find_walkable_spawn_position on drawn grids *)

\* square and non-square grids of Grass and Rock, origin of the built map
AllGridsOf(w, h, cats) ==
    { [tiles |-> t, width |-> w, height |-> h, tile_size |-> TILE_SIZE,
       grid_origin_x |-> GridOriginX, grid_origin_y |-> GridOriginY] :
        t \in [1..(w * h) -> cats] }

SpawnGrids ==
    AllGridsOf(1, 1, {"Grass", "Rock"}) \cup AllGridsOf(2, 2, {"Grass", "Rock"})
        \cup AllGridsOf(3, 3, {"Grass", "Rock"}) \cup AllGridsOf(5, 2, {"Grass", "Rock"})
        \cup AllGridsOf(2, 4, {"Grass", "Rock"})

SpawnInit ==
    /\ WorldIdle
    /\ ret = NoRet
    /\ \E g \in SpawnGrids : call = [fn |-> "find_walkable_spawn_position", m |-> g]

FindSpawnCall ==
    /\ call.fn = "find_walkable_spawn_position"
    /\ ~ret.done
    /\ \E pos \in FindWalkableSpawnPosition(call.m) :
          ret' = [done |-> TRUE, value |-> pos]
    /\ UNCHANGED <<world, call>>

SpawnNext == FindSpawnCall

SpecSpawn == SpawnInit /\ [][SpawnNext]_vars

SpawnDone == call.fn = "find_walkable_spawn_position" /\ ret.done

FeetClear(m, pos) == IsWorldPosClearCircle(m, FeetOf(pos), COLLIDER_RADIUS)

\* some point of the grid (cell centres and the feet points under them) is
\* circle-clear for the collider radius
SomePositionClear(m) ==
    \E x \in 0..(m.width - 1), y \in 0..(m.height - 1) :
        \/ IsWorldPosClearCircle(m, CellCenter(m, x, y), COLLIDER_RADIUS)
        \/ FeetClear(m, CellCenter(m, x, y))

\* C4 as stated: whenever some position of the grid is circle-clear, the
\* returned position's feet point is circle-clear.
C4_SpawnAlwaysValid ==
    (SpawnDone /\ SomePositionClear(call.m)) => FeetClear(call.m, ret.value)

\* the cells the centre test and the ring search visit
SearchedCells(m) ==
    LET c == CenterCell(m)
        k == Min(m.width, m.height) \div 2
    IN { q \in (0..(m.width - 1)) \X (0..(m.height - 1)) :
           Abs(q[1] - c[1]) <= k /\ Abs(q[2] - c[2]) <= k }

\* C4 amended: when the centre cell or a cell of a searched ring has a
\* circle-clear feet point, the returned position's feet point is
\* circle-clear; and a returned position whose feet point is blocked is the
\* centre position.
C4_SpawnValidWhenSearched ==
    SpawnDone
        => /\ (\E q \in SearchedCells(call.m) :
                  FeetClear(call.m, CellCenter(call.m, q[1], q[2])))
                 => FeetClear(call.m, ret.value)
           /\ ~FeetClear(call.m, ret.value)
                 => ret.value = CellCenter(call.m, CenterCell(call.m)[1], CenterCell(call.m)[2])

\* the centre is blocked, a ring cell is clear, and that cell was returned
C4_Witness ==
    /\ SpawnDone
    /\ ~FeetClear(call.m, CellCenter(call.m, CenterCell(call.m)[1], CenterCell(call.m)[2]))
    /\ \E q \in SearchedCells(call.m) : FeetClear(call.m, CellCenter(call.m, q[1], q[2]))
    /\ FeetClear(call.m, ret.value)
    /\ call.m.width # call.m.height

----------------------------------------------------------------------------
(* The build lifecycle under Spec and FairSpec *)

\* this step is the build_collision_map system of the frame
BuildStep ==
    "build_collision_map" \notin ran /\ "build_collision_map" \in ran'

\* the insert_resource commands waiting in a queue
Inserts(q) == {i \in 1..Len(q) : q[i].cmd = "insert_resource"}

\* the grid the application has: the resource, or the one waiting to be
\* inserted at the end of the frame that built it
TheGrid ==
    IF map # NoMap THEN map
    ELSE IF Inserts(queue) # {} THEN queue[CHOOSE i \in Inserts(queue) : TRUE].map
    ELSE NoMap

\* C8: once the built flag is set it stays set, every later tick of
\* build_collision_map constructs and inserts nothing, and so at most one
\* grid is ever constructed.
C8_OneShotBuild ==
    [][/\ built => built'
       /\ (built /\ BuildStep) =>
              /\ builds' = builds
              /\ queue' = queue
              /\ map' = map
       /\ builds' <= 1
       /\ Cardinality(Inserts(queue')) <= 1]_vars

\* the build system has run again in a frame after the one that built the
\* grid, with tiles on hand that would now give a different grid
C8_Witness ==
    /\ built
    /\ builds = 1
    /\ map # NoMap
    /\ "build_collision_map" \in ran
    /\ map # BuildGrid(tiles)

C10_GridImmutable ==
    [][built => TheGrid' = TheGrid]_vars

\* the grid is in place, the player has spawned and moved off its spawn
\* position, and tiles have arrived since the build
C10_Witness ==
    /\ built
    /\ map # NoMap
    /\ map # BuildGrid(tiles)
    /\ player # NoPlayer
    /\ player \notin FindWalkableSpawnPosition(map)
    /\ "debug" \in ran

----------------------------------------------------------------------------
(* SpecRest: try_move_circle for displacements at and around the epsilon *)

\* the desired end is the start moved by (nx, ny) / 4000 of a model unit:
\* 1/4000 is below the epsilon of 1/3200, 2/4000 and the diagonal are not
RestDens == {4000}
RestNudges == {-2, -1, 0, 1, 2}
RestStartsX == {10, 15, 19, 25, 45}
RestStartsY == {5, 20}
RestRadii == {-1, 0, 5}

RestInit ==
    /\ WorldIdle
    /\ ret = NoRet
    /\ \E g \in MoveGrids, sx \in RestStartsX, sy \in RestStartsY,
          nx \in RestNudges, ny \in RestNudges, den \in RestDens, r \in RestRadii :
          call = [fn |-> "try_move_circle_rest", m |-> g,
                  start |-> Vec2(g.grid_origin_x + sx, g.grid_origin_y + sy),
                  desired_end |-> [x |-> (g.grid_origin_x + sx) * den + nx,
                                   y |-> (g.grid_origin_y + sy) * den + ny,
                                   d |-> den],
                  radius |-> r]

TryMoveRestCall ==
    /\ call.fn = "try_move_circle_rest"
    /\ ~ret.done
    /\ ret' = [done |-> TRUE,
               value |-> TryMoveCircle(call.m, call.start, call.desired_end, call.radius)]
    /\ UNCHANGED <<world, call>>

RestNext == TryMoveRestCall

SpecRest == RestInit /\ [][RestNext]_vars

RestDone == call.fn = "try_move_circle_rest" /\ ret.done

\* the distance from a to b is below 0.001 world units (1/3200 model unit)
CloserThanEpsilon(a, b) ==
    LET nx == b.x * a.d - a.x * b.d
        ny == b.y * a.d - a.y * b.d
        den == a.d * b.d
    IN \E k \in 0..3 :
          /\ nx * nx + ny * ny = k
          /\ 3200 * 3200 * k < den * den

\* C11: try_move_circle returns start itself when desired_end is start or
\* is closer to it than 0.001, whatever the grid holds, whether or not the
\* start is clear, and for every radius.
C11_SweepAtRest ==
    (RestDone /\ CloserThanEpsilon(call.start, call.desired_end))
        => ret.value = call.start

\* a start that is not clear, a desired end a non-zero distance below the
\* epsilon away: the start came back
C11_Witness ==
    /\ RestDone
    /\ call.radius > 0
    /\ ~IsWorldPosClearCircle(call.m, call.start, call.radius)
    /\ ~SamePoint(call.start, call.desired_end)
    /\ CloserThanEpsilon(call.start, call.desired_end)
    /\ ret.value = call.start

\* the epsilon is a strict bound: a clear displacement just above it is taken
C11_WitnessAbove ==
    /\ RestDone
    /\ ~CloserThanEpsilon(call.start, call.desired_end)
    /\ ~SamePoint(ret.value, call.start)

----------------------------------------------------------------------------
(* SpecPoint: is_world_pos_walkable, and is_world_pos_clear_circle with a  *)
(* radius that is not positive                                             *)

TileTypeList ==
    <<"Empty", "Water", "Dirt", "Tree", "Grass", "Rock", "YellowGrass", "Shore">>

\* eight 2 x 2 grids: every cell holds every category in one of them
PointGrids ==
    { [tiles |-> [i \in 1..4 |-> TileTypeList[((i + k) % 8) + 1]],
       width |-> 2, height |-> 2, tile_size |-> TILE_SIZE,
       grid_origin_x |-> -30, grid_origin_y |-> 10] : k \in 0..7 }

\* points on, just inside and just outside every cell edge, and whole and
\* half coordinates
PointOffsetsX == {-21, -20, -1, 0, 1, 19, 20, 21, 39, 40, 41, 46}
PointOffsetsY == {-1, 0, 10, 19, 20, 39, 40, 41}
PointDens == {1, 2}
PointRadii == {-30, -1, 0}

PointsOf(g) ==
    { [x |-> (g.grid_origin_x + ox) * den - (den - 1),
       y |-> (g.grid_origin_y + oy) * den - (den - 1),
       d |-> den] : ox \in PointOffsetsX, oy \in PointOffsetsY, den \in PointDens }

PointInit ==
    /\ WorldIdle
    /\ ret = NoRet
    /\ \E g \in PointGrids :
          \E p \in PointsOf(g) :
             \/ call = [fn |-> "is_world_pos_walkable", m |-> g, p |-> p]
             \/ \E r \in PointRadii :
                   call = [fn |-> "is_world_pos_clear_circle_degenerate",
                           m |-> g, p |-> p, radius |-> r]

PointWalkableCall ==
    /\ call.fn = "is_world_pos_walkable"
    /\ ~ret.done
    /\ ret' = [done |-> TRUE, value |-> IsWorldPosWalkable(call.m, call.p)]
    /\ UNCHANGED <<world, call>>

ClearCircleDegenerateCall ==
    /\ call.fn = "is_world_pos_clear_circle_degenerate"
    /\ ~ret.done
    /\ ret' = [done |-> TRUE, value |-> IsWorldPosClearCircle(call.m, call.p, call.radius)]
    /\ UNCHANGED <<world, call>>

PointNext ==
    \/ PointWalkableCall
    \/ ClearCircleDegenerateCall

SpecPoint == PointInit /\ [][PointNext]_vars

\* the point lies on the boundary of the grid's world extent
OnGridEdge(m, p) ==
    LET left == m.grid_origin_x * p.d
        right == (m.grid_origin_x + m.width * m.tile_size) * p.d
        bottom == m.grid_origin_y * p.d
        top == (m.grid_origin_y + m.height * m.tile_size) * p.d
    IN /\ p.x >= left /\ p.x <= right /\ p.y >= bottom /\ p.y <= top
       /\ p.x \in {left, right} \/ p.y \in {bottom, top}

\* C12: for a radius that is zero or negative the circle query answers what
\* the point query answers at the same point, on the grid's edges too.
C12_DegenerateRadius ==
    (call.fn = "is_world_pos_clear_circle_degenerate" /\ ret.done /\ call.radius <= 0)
        => ret.value = IsWorldPosWalkable(call.m, call.p)

\* a point on the left or bottom edge over a walkable cell, radius zero:
\* both queries answer true
C12_Witness ==
    /\ call.fn = "is_world_pos_clear_circle_degenerate"
    /\ ret.done
    /\ call.radius = 0
    /\ OnGridEdge(call.m, call.p)
    /\ ret.value = TRUE
    /\ IsWorldPosWalkable(call.m, call.p)

\* the cell column (or row) k that holds coordinate c: the one whose
\* half-open interval [origin + k * size, origin + (k + 1) * size) contains c
CellHolding(c, den, origin, size, k) ==
    /\ (origin + k * size) * den <= c
    /\ c < (origin + (k + 1) * size) * den

\* C13: the point query answers false when the cell holding the point is
\* outside [0, width) x [0, height), and otherwise the walkability of the
\* category stored at index y * width + x: false for Water, Tree and Rock,
\* true for Empty, Dirt, Grass, YellowGrass and Shore.
C13_PointWalkability ==
    (call.fn = "is_world_pos_walkable" /\ ret.done)
        => LET m == call.m
               p == call.p
           IN \A gx \in -3..4, gy \in -3..4 :
                 (/\ CellHolding(p.x, p.d, m.grid_origin_x, m.tile_size, gx)
                  /\ CellHolding(p.y, p.d, m.grid_origin_y, m.tile_size, gy))
                    => ret.value =
                          IF gx < 0 \/ gx >= m.width \/ gy < 0 \/ gy >= m.height
                          THEN FALSE
                          ELSE m.tiles[gy * m.width + gx + 1]
                                  \in {"Empty", "Dirt", "Grass", "YellowGrass", "Shore"}

\* a point in the upper-right cell, which holds Grass next to a Tree: walkable
C13_Witness ==
    /\ call.fn = "is_world_pos_walkable"
    /\ ret.done
    /\ CellHolding(call.p.x, call.p.d, call.m.grid_origin_x, call.m.tile_size, 1)
    /\ CellHolding(call.p.y, call.p.d, call.m.grid_origin_y, call.m.tile_size, 1)
    /\ call.m.tiles[4] = "Grass"
    /\ call.m.tiles[3] = "Tree"
    /\ ret.value = TRUE

\* a point just left of the grid: not walkable, whatever cell (0, y) holds
C13_WitnessOutside ==
    /\ call.fn = "is_world_pos_walkable"
    /\ ret.done
    /\ CellHolding(call.p.x, call.p.d, call.m.grid_origin_x, call.m.tile_size, -1)
    /\ CellHolding(call.p.y, call.p.d, call.m.grid_origin_y, call.m.tile_size, 0)
    /\ TileIsWalkable(call.m.tiles[1])
    /\ ret.value = FALSE

----------------------------------------------------------------------------
(* SpecBuffer: the circle query next to Shore, Tree, Rock and Water cells *)

BufferGrids == GridsOf(2, 2, {"Grass", "Water", "Shore", "Tree", "Rock"}, -30, 10)

BufferInit ==
    /\ WorldIdle
    /\ ret = NoRet
    /\ \E g \in BufferGrids, ox \in QueryOffsetsX, oy \in QueryOffsetsY, r \in QueryRadii :
          call = [fn |-> "is_world_pos_clear_circle_buffer", m |-> g,
                  p |-> Vec2(g.grid_origin_x + ox, g.grid_origin_y + oy),
                  radius |-> r]

ClearCircleBufferCall ==
    /\ call.fn = "is_world_pos_clear_circle_buffer"
    /\ ~ret.done
    /\ ret' = [done |-> TRUE, value |-> IsWorldPosClearCircle(call.m, call.p, call.radius)]
    /\ UNCHANGED <<world, call>>

BufferNext == ClearCircleBufferCall

SpecBuffer == BufferInit /\ [][BufferNext]_vars

BufferDone == call.fn = "is_world_pos_clear_circle_buffer" /\ ret.done

\* the cells of m that hold one of the categories cats
CellsHolding(m, cats) == {i \in DOMAIN m.tiles : m.tiles[i] \in cats}

\* m with cell i turned to Water, everything else the same
WithWaterAt(m, i) == [m EXCEPT !.tiles[i] = "Water"]

\* C14: when a grid with a Shore cell and the grid that has Water in that
\* cell are queried at the same centre with the same radius > 0, the Shore
\* grid is clear whenever the Water grid is clear.
C14_ShoreEasierThanWater ==
    (BufferDone /\ call.radius > 0)
        => \A i \in CellsHolding(call.m, {"Shore"}) :
              IsWorldPosClearCircle(WithWaterAt(call.m, i), call.p, call.radius)
                 => ret.value = TRUE

\* a centre and radius at which the Shore grid is clear and the Water grid
\* is rejected
C14_Witness ==
    /\ BufferDone
    /\ call.radius > 0
    /\ ret.value = TRUE
    /\ \E i \in CellsHolding(call.m, {"Shore"}) :
          ~IsWorldPosClearCircle(WithWaterAt(call.m, i), call.p, call.radius)

C15_NeverEasier ==
    (BufferDone /\ call.radius > 0 /\ ret.value = TRUE)
        => \A i \in CellsHolding(call.m, {"Tree", "Rock"}) :
              IsWorldPosClearCircle(WithWaterAt(call.m, i), call.p, call.radius)

----------------------------------------------------------------------------
(* SpecSearch: find_walkable_spawn_position step by step: the centre test, *)
(* one step per ring, one step per random draw, the last resort            *)

\* 4 x 4 maps whose rows 1 and 2 are Rock in columns 1..3, so that neither
\* the centre cell (2, 2) nor any cell of ring 1 is a clear candidate
RingTwoGrids ==
    { g \in AllGridsOf(4, 4, {"Grass", "Rock"}) :
        \A x \in 1..3, y \in 1..2 : g.tiles[y * 4 + x + 1] = "Rock" }

SearchGrids ==
    AllGridsOf(1, 1, {"Grass", "Rock"}) \cup AllGridsOf(2, 2, {"Grass", "Rock"})
        \cup AllGridsOf(3, 2, {"Grass", "Rock"}) \cup AllGridsOf(2, 4, {"Grass", "Rock"})
        \cup AllGridsOf(5, 2, {"Grass", "Rock"}) \cup RingTwoGrids

\* mutant: the last resort is the grid's origin corner
SpawnFallbackOrigin(m) == Vec2(m.grid_origin_x, m.grid_origin_y)

\* systems.rs:143: (world_center_x, world_center_y)
SpawnFallback(m) == CellCenter(m, CenterCell(m)[1], CenterCell(m)[2])

\* the number of rings the loop of systems.rs:102 runs
RingCount(m) == Min(m.width, m.height) \div 2

SearchInit ==
    /\ WorldIdle
    /\ ret = NoRet
    /\ \E g \in SearchGrids :
          call = [fn |-> "spawn_search", m |-> g, pc |-> "center", ring |-> 1, tries |-> 0]

\* systems.rs:96-99
SearchCenter ==
    /\ call.fn = "spawn_search" /\ call.pc = "center"
    /\ LET c == CenterCell(call.m) IN
       IF CandidateClear(call.m, c[1], c[2])
       THEN /\ ret' = [done |-> TRUE, value |-> CellCenter(call.m, c[1], c[2]),
                         via |-> "center"]
            /\ call' = [call EXCEPT !.pc = "returned"]
       ELSE /\ call' = [call EXCEPT !.pc = "rings"]
            /\ UNCHANGED ret
    /\ UNCHANGED world

\* one iteration of `for radius in 1..=min(width, height) / 2`
SearchRing ==
    /\ call.fn = "spawn_search" /\ call.pc = "rings"
    /\ call.ring <= RingCount(call.m)
    /\ LET c == CenterCell(call.m)
           hits == {v \in RingHits(call.m) : v[1] = call.ring}
       IN IF hits # {}
          THEN LET first == CHOOSE v \in hits : \A w \in hits : w = v \/ VisitBefore(v, w)
               IN /\ ret' = [done |-> TRUE,
                             value |-> CellCenter(call.m, c[1] + first[2], c[2] + first[3]),
                             via |-> "ring"]
                  /\ call' = [call EXCEPT !.pc = "returned"]
          ELSE /\ call' = [call EXCEPT !.ring = call.ring + 1]
               /\ UNCHANGED ret
    /\ UNCHANGED world

\* the ring loop is exhausted: systems.rs:127
SearchRingsDone ==
    /\ call.fn = "spawn_search" /\ call.pc = "rings"
    /\ call.ring > RingCount(call.m)
    /\ call' = [call EXCEPT !.pc = "random"]
    /\ UNCHANGED <<world, ret>>

\* one iteration of `for _ in 0..100` with the cell (x, y) drawn
SearchRandom ==
    /\ call.fn = "spawn_search" /\ call.pc = "random"
    /\ call.tries < RANDOM_TRIES
    /\ \E x \in 0..(call.m.width - 1), y \in 0..(call.m.height - 1) :
          IF CandidateClear(call.m, x, y)
          THEN /\ ret' = [done |-> TRUE, value |-> CellCenter(call.m, x, y),
                            via |-> "random"]
               /\ call' = [call EXCEPT !.pc = "returned", !.tries = call.tries + 1]
          ELSE /\ call' = [call EXCEPT !.tries = call.tries + 1]
               /\ UNCHANGED ret
    /\ UNCHANGED world

\* systems.rs:141-143
SearchLastResort ==
    /\ call.fn = "spawn_search" /\ call.pc = "random"
    /\ call.tries >= RANDOM_TRIES
    /\ ret' = [done |-> TRUE, value |-> SpawnFallback(call.m), via |-> "last_resort"]
    /\ call' = [call EXCEPT !.pc = "last_resort"]
    /\ UNCHANGED world

SearchNext ==
    \/ SearchCenter
    \/ SearchRing
    \/ SearchRingsDone
    \/ SearchRandom
    \/ SearchLastResort

SpecSearch == SearchInit /\ [][SearchNext]_vars

\* the function runs on: it is never suspended
FairSpecSearch == SpecSearch /\ WF_vars(SearchNext)

\* the centres of the cells of m
CellCenters(m) ==
    {CellCenter(m, x, y) : x \in 0..(m.width - 1), y \in 0..(m.height - 1)}

\* C16: the search tests the centre, at most min(width, height)/2 rings and
\* at most 100 random candidates, then returns; what it returns is a
\* position (the centre of a cell of the grid); when the centre, every ring
\* candidate and every random candidate was blocked it is the grid-centre
\* position; and the search always comes to its return.
C16_SpawnSearchNeverFails ==
    /\ [](call.fn = "spawn_search" =>
             /\ call.tries <= 100
             /\ call.ring <= (Min(call.m.width, call.m.height) \div 2) + 1
             /\ ret.done =>
                   /\ ret.value \in CellCenters(call.m)
                   /\ call.pc = "last_resort" =>
                         /\ call.tries = 100
                         /\ ret.value = CellCenter(call.m, call.m.width \div 2,
                                                   call.m.height \div 2)
                   /\ ~FeetClear(call.m, ret.value) => call.pc = "last_resort")
    /\ <>(ret.done)

\* all 100 random draws hit blocked cells although a clear one exists: the
\* grid centre came back
C16_Witness ==
    /\ call.fn = "spawn_search"
    /\ ret.done
    /\ call.pc = "last_resort"
    /\ call.tries = 100
    /\ \E x \in 0..(call.m.width - 1), y \in 0..(call.m.height - 1) :
          CandidateClear(call.m, x, y)
    /\ ret.value = SpawnFallback(call.m)

\* the step-by-step search returns what FindWalkableSpawnPosition allows
SearchAgreesWithFunction ==
    (call.fn = "spawn_search" /\ ret.done) => ret.value \in FindWalkableSpawnPosition(call.m)

----------------------------------------------------------------------------
(* SpecIndex: the coordinates each operation turns into an index of tiles *)

\* map.rs:41-47: the coordinates is_walkable indexes tiles with
IsWalkableTouched(m, x, y) == IF ~InBounds(m, x, y) THEN {} ELSE {<<x, y>>}

\* map.rs:50-55
SetTileTouched(m, x, y) == IF InBounds(m, x, y) THEN {<<x, y>>} ELSE {}

\* map.rs:173-180
GetTileTouched(m, x, y) == IF InBounds(m, x, y) THEN {<<x, y>>} ELSE {}

\* map.rs:71-106: the point query's cell, or the scanned cells that pass
\* the in_bounds test of the loop and of get_tile
ClearCircleTouched(m, p, radius_world) ==
    IF ~IsWorldPosWithinBounds(m, p, radius_world) THEN {}
    ELSE IF radius_world <= 0
    THEN LET g == WorldToGrid(m, p) IN IsWalkableTouched(m, g.x, g.y)
    ELSE UNION { GetTileTouched(m, c[1], c[2]) : c \in ScannedCells(m, p, radius_world) }

\* generate.rs:310-348: every cell of the two loops, the neighbours that
\* pass in_bounds, and the set_tile of every shore
ShoreTouched(m) ==
    LET cells == (0..(m.width - 1)) \X (0..(m.height - 1))
    IN cells
       \cup { n \in UNION { Neighbors8(c[1], c[2]) : c \in cells } : InBounds(m, n[1], n[2]) }
       \cup UNION { SetTileTouched(m, c[1], c[2]) : c \in ShoresToCreate(m) }

\* generate.rs:186-193: the set_tile of every tracked footprint
BuilderTouched(obs) ==
    LET b == TileBounds(obs)
        m0 == WithOrigin(b.max_x - b.min_x + 1, b.max_y - b.min_y + 1,
                         TILE_SIZE, GridOriginX, GridOriginY)
        tracker == TrackLayers(obs, 1, [k \in {} |-> TRUE])
    IN UNION { SetTileTouched(m0, key[1] - b.min_x, key[2] - b.min_y) :
                  key \in DOMAIN tracker }

IndexGrids == GridsOf(2, 2, {"Grass", "Water"}, -30, 10)
IndexCoords == -1..2
IndexRadii == {0, 4, 5}

IndexInit ==
    /\ WorldIdle
    /\ ret = NoRet
    /\ \/ \E g \in IndexGrids, x \in IndexCoords, y \in IndexCoords,
             f \in {"is_walkable", "get_tile", "set_tile"} :
             call = [fn |-> f, m |-> g, x |-> x, y |-> y]
       \/ \E g \in IndexGrids, ox \in QueryOffsetsX, oy \in QueryOffsetsY, r \in IndexRadii :
             call = [fn |-> "clear_circle_index", m |-> g,
                     p |-> Vec2(g.grid_origin_x + ox, g.grid_origin_y + oy), radius |-> r]
       \/ \E g \in IndexGrids : call = [fn |-> "convert_water_edges_to_shore", m |-> g]
       \/ \E obs \in TileSeqs : call = [fn |-> "build_index", obs |-> obs]

IsWalkableCall ==
    /\ call.fn = "is_walkable" /\ ~ret.done
    /\ ret' = [done |-> TRUE, value |-> IsWalkable(call.m, call.x, call.y),
               grid |-> call.m, touched |-> IsWalkableTouched(call.m, call.x, call.y)]
    /\ UNCHANGED <<world, call>>

GetTileCall ==
    /\ call.fn = "get_tile" /\ ~ret.done
    /\ ret' = [done |-> TRUE,
               value |-> IF InBounds(call.m, call.x, call.y)
                         THEN GetTileAt(call.m, call.x, call.y) ELSE "None",
               grid |-> call.m, touched |-> GetTileTouched(call.m, call.x, call.y)]
    /\ UNCHANGED <<world, call>>

SetTileCall ==
    /\ call.fn = "set_tile" /\ ~ret.done
    /\ ret' = [done |-> TRUE, value |-> TRUE,
               grid |-> SetTile(call.m, call.x, call.y, "Rock"),
               touched |-> SetTileTouched(call.m, call.x, call.y)]
    /\ UNCHANGED <<world, call>>

ClearCircleIndexCall ==
    /\ call.fn = "clear_circle_index" /\ ~ret.done
    /\ ret' = [done |-> TRUE,
               value |-> IsWorldPosClearCircle(call.m, call.p, call.radius),
               grid |-> call.m,
               touched |-> ClearCircleTouched(call.m, call.p, call.radius)]
    /\ UNCHANGED <<world, call>>

ShoreCall ==
    /\ call.fn = "convert_water_edges_to_shore" /\ ~ret.done
    /\ ret' = [done |-> TRUE, value |-> TRUE,
               grid |-> ConvertWaterEdgesToShore(call.m),
               touched |-> ShoreTouched(call.m)]
    /\ UNCHANGED <<world, call>>

BuildIndexCall ==
    /\ call.fn = "build_index" /\ ~ret.done
    /\ ret' = [done |-> TRUE, value |-> TRUE,
               grid |-> FlattenTiles(call.obs),
               touched |-> BuilderTouched(call.obs)]
    /\ UNCHANGED <<world, call>>

IndexNext ==
    \/ IsWalkableCall
    \/ GetTileCall
    \/ SetTileCall
    \/ ClearCircleIndexCall
    \/ ShoreCall
    \/ BuildIndexCall

SpecIndex == IndexInit /\ [][IndexNext]_vars

IndexOps ==
    {"is_walkable", "get_tile", "set_tile", "clear_circle_index",
     "convert_water_edges_to_shore", "build_index"}

C17_WitnessQuery ==
    /\ call.fn = "clear_circle_index"
    /\ ret.done
    /\ call.radius > 0
    /\ SquareExitsExtent(call.m, call.p, call.radius)
    /\ ret.touched = {}

----------------------------------------------------------------------------
(* Grid extent, flattening and the frame of the shoreline pass *)

\* footprint of the i-th tile on each axis, from its world position
FootprintX(obs, i) == Floor(obs[i].x - GridOriginX, TILE_SIZE)
FootprintY(obs, i) == Floor(obs[i].y - GridOriginY, TILE_SIZE)

\* C18: the built grid's width is the greatest footprint x minus the least
\* plus one, its height likewise in y; both are at least 1, the grid has at
\* least one cell, and every tile's footprint, taken relative to the least
\* footprint, is an in-bounds cell.
C18_ExtentIsBoundingBox ==
    BuildDone
        => LET obs == call.obs
               m == ret.value
               I == 1..Len(obs)
           IN /\ \E lo, hi \in I :
                    /\ \A k \in I : FootprintX(obs, lo) <= FootprintX(obs, k)
                                    /\ FootprintX(obs, k) <= FootprintX(obs, hi)
                    /\ m.width = FootprintX(obs, hi) - FootprintX(obs, lo) + 1
                    /\ \A k \in I :
                          /\ FootprintX(obs, k) - FootprintX(obs, lo) >= 0
                          /\ FootprintX(obs, k) - FootprintX(obs, lo) < m.width
              /\ \E lo, hi \in I :
                    /\ \A k \in I : FootprintY(obs, lo) <= FootprintY(obs, k)
                                    /\ FootprintY(obs, k) <= FootprintY(obs, hi)
                    /\ m.height = FootprintY(obs, hi) - FootprintY(obs, lo) + 1
                    /\ \A k \in I :
                          /\ FootprintY(obs, k) - FootprintY(obs, lo) >= 0
                          /\ FootprintY(obs, k) - FootprintY(obs, lo) < m.height
              /\ m.width >= 1
              /\ m.height >= 1
              /\ Len(m.tiles) >= 1

\* two tiles, one left of the nominal grid (footprint x = -1) and one inside
\* it a row higher: the grid is 2 x 2
C18_Witness ==
    /\ BuildDone
    /\ Len(call.obs) = 2
    /\ FootprintX(call.obs, 1) = -1 /\ FootprintY(call.obs, 1) = 0
    /\ FootprintX(call.obs, 2) = 0 /\ FootprintY(call.obs, 2) = 1
    /\ ret.value.width = 2 /\ ret.value.height = 2

\* a single tile gives a 1 x 1 grid, never an empty one
C18_WitnessSingle ==
    /\ BuildDone
    /\ Len(call.obs) = 1
    /\ ret.value.width = 1 /\ ret.value.height = 1
    /\ Len(ret.value.tiles) = 1

\* the tiles of obs whose footprint is the cell (x, y) of the built grid
TilesAtCell(obs, x, y) ==
    { i \in 1..Len(obs) :
        /\ \E lo \in 1..Len(obs) :
              /\ \A k \in 1..Len(obs) : FootprintX(obs, lo) <= FootprintX(obs, k)
              /\ FootprintX(obs, i) - FootprintX(obs, lo) = x
        /\ \E lo \in 1..Len(obs) :
              /\ \A k \in 1..Len(obs) : FootprintY(obs, lo) <= FootprintY(obs, k)
              /\ FootprintY(obs, i) - FootprintY(obs, lo) = y }

\* C19: before the shoreline pass every cell of the built grid holds the
\* category of a tile of greatest z among the tiles whose footprint is that
\* cell, and holds Empty when no tile has that footprint.
C19_FlattenByZ ==
    BuildDone
        => LET obs == call.obs
               m == ret.flat
           IN \A x \in 0..(m.width - 1), y \in 0..(m.height - 1) :
                 LET at == TilesAtCell(obs, x, y)
                     cell == m.tiles[y * m.width + x + 1]
                 IN IF at = {}
                    THEN cell = "Empty"
                    ELSE \E i \in at :
                            /\ \A j \in at : obs[j].z <= obs[i].z
                            /\ cell = obs[i].tile_type

\* Dirt (z = 1) and then Water (z = 3) at one footprint, a Rock diagonally
\* across: the shared cell is Water, the two uncovered cells are Empty
C19_Witness ==
    /\ BuildDone
    /\ Len(call.obs) = 3
    /\ Footprint(call.obs[1]) = Footprint(call.obs[2])
    /\ call.obs[1].tile_type = "Dirt" /\ call.obs[2].tile_type = "Water"
    /\ call.obs[3].tile_type = "Rock"
    /\ ret.flat.tiles = <<"Water", "Empty", "Empty", "Rock">>

----------------------------------------------------------------------------
(* SpecShore: convert_water_edges_to_shore applied to a map *)

\* every 3 x 3 map of Grass, Water and Rock and every 2 x 2 map of all the
\* categories
ShoreGrids ==
    AllGridsOf(3, 3, {"Grass", "Water", "Rock"}) \cup AllGridsOf(2, 2, TileTypes)

ShoreInit ==
    /\ WorldIdle
    /\ ret = NoRet
    /\ \E g \in ShoreGrids : call = [fn |-> "shore_pass", m |-> g]

ShorePassCall ==
    /\ call.fn = "shore_pass"
    /\ ~ret.done
    /\ ret' = [done |-> TRUE, value |-> ConvertWaterEdgesToShore(call.m)]
    /\ UNCHANGED <<world, call>>

ShoreNext == ShorePassCall

SpecShore == ShoreInit /\ [][ShoreNext]_vars

ShoreDone == call.fn = "shore_pass" /\ ret.done

\* number of cells of the tile vector t that hold category k
CountOf(t, k) == Cardinality({i \in 1..Len(t) : t[i] = k})

GrassAroundWater ==
    <<"Grass", "Grass", "Grass",
      "Grass", "Water", "Grass",
      "Grass", "Grass", "Grass">>

\* C20: the shoreline pass leaves every cell that was not Water with the
\* category it had, every cell it changes becomes Shore, and the shape and
\* origin of the map stay as they were; a 3 x 3 map of Grass around one Water
\* cell comes out as 8 Grass, 1 Shore and 0 Water.
C20_ShorelineFrame ==
    ShoreDone
        => LET pre == call.m
               post == ret.value
           IN /\ post.width = pre.width /\ post.height = pre.height
              /\ post.tile_size = pre.tile_size
              /\ post.grid_origin_x = pre.grid_origin_x
              /\ post.grid_origin_y = pre.grid_origin_y
              /\ Len(post.tiles) = Len(pre.tiles)
              /\ \A i \in 1..Len(pre.tiles) :
                    /\ pre.tiles[i] # "Water" => post.tiles[i] = pre.tiles[i]
                    /\ post.tiles[i] # pre.tiles[i] => post.tiles[i] = "Shore"
              /\ pre.tiles = GrassAroundWater
                    => /\ CountOf(post.tiles, "Grass") = 8
                       /\ CountOf(post.tiles, "Shore") = 1
                       /\ CountOf(post.tiles, "Water") = 0

\* the pass has turned the Water centre of the 3 x 3 Grass map into Shore
C20_Witness ==
    /\ ShoreDone
    /\ call.m.tiles = GrassAroundWater
    /\ ret.value.tiles = [GrassAroundWater EXCEPT ![5] = "Shore"]

\* a Rock beside Grass and a Water beside Grass: only the Water has changed
C20_WitnessRockKept ==
    /\ ShoreDone
    /\ call.m.tiles = <<"Rock", "Grass", "Water", "Tree">>
    /\ ret.value.tiles = <<"Rock", "Grass", "Shore", "Tree">>

----------------------------------------------------------------------------
(* SpecSweep: try_move_circle, one loop iteration per step *)

\* 3 x 2 maps of Grass and Rock with at most MaxBlocked Rock cells
SweepGrids == GridsOf(3, 2, {"Grass", "Rock"}, -30, 10)

SweepStartsX == {5, 8, 15}
SweepStartsY == {5, 14}
SweepEndsX == {8, 30, 45, 55}
SweepEndsY == {5, 14, 20, 35}
SweepRadii == {0, 5}

\* desired ends a few 1/4000 of a unit from the start, on both sides of the
\* epsilon of 1/3200
SweepNudgeDen == 4000
SweepNudges == {1, 2}

\* the desired ends tried from the start (sx, sy) of grid g
SweepEndsFrom(g, sx, sy) ==
    { Vec2(g.grid_origin_x + ex, g.grid_origin_y + ey) :
         ex \in SweepEndsX, ey \in SweepEndsY }
    \cup { [x |-> (g.grid_origin_x + sx) * SweepNudgeDen + n,
            y |-> (g.grid_origin_y + sy) * SweepNudgeDen,
            d |-> SweepNudgeDen] : n \in SweepNudges }

SweepInit ==
    /\ WorldIdle
    /\ ret = NoRet
    /\ \E g \in SweepGrids, sx \in SweepStartsX, sy \in SweepStartsY, r \in SweepRadii :
          \E e \in SweepEndsFrom(g, sx, sy) :
             call = [fn |-> "sweep", m |-> g,
                     start |-> Vec2(g.grid_origin_x + sx, g.grid_origin_y + sy),
                     desired_end |-> e,
                     radius |-> r,
                     pc |-> "entry",
                     p |-> Vec2(g.grid_origin_x + sx, g.grid_origin_y + sy),
                     step_v |-> [x |-> 0, y |-> 0],
                     steps |-> 0, i |-> 0, queries |-> 0, trace |-> <<>>]

\* map.rs:110-121: the early return, or steps, step_v and p = start
SweepEnter ==
    /\ call.fn = "sweep"
    /\ call.pc = "entry"
    /\ LET delta == Delta(call.start, call.desired_end) IN
       IF BelowEpsilon(delta)
       THEN call' = [call EXCEPT !.pc = "return"]
       ELSE LET steps == StepCount(call.m, delta) IN
            call' = [call EXCEPT
                        !.pc = "loop",
                        !.steps = steps,
                        !.step_v = [x |-> delta.x, y |-> delta.y],
                        !.p = [x |-> call.start.x * call.desired_end.d * steps,
                               y |-> call.start.y * call.desired_end.d * steps,
                               d |-> delta.d * steps]]
    /\ UNCHANGED <<world, ret>>

\* map.rs:122-142: one pass through the body of the for loop
SweepIterate ==
    /\ call.fn = "sweep"
    /\ call.pc = "loop"
    /\ call.i < call.steps
    /\ LET s == SlideStep(call.m, call.p, call.step_v, call.radius) IN
       call' = [call EXCEPT
                   !.p = s.p,
                   !.i = call.i + 1,
                   !.queries = call.queries + s.queries,
                   !.trace = Append(call.trace, s.branch),
                   !.pc = IF s.go THEN "loop" ELSE "return"]
    /\ UNCHANGED <<world, ret>>

\* map.rs:114 and map.rs:143: the function returns p
SweepReturn ==
    /\ call.fn = "sweep"
    /\ \/ call.pc = "return"
       \/ call.pc = "loop" /\ call.i = call.steps
    /\ call' = [call EXCEPT !.pc = "done"]
    /\ ret' = [done |-> TRUE, value |-> call.p]
    /\ UNCHANGED world

SweepNext == SweepEnter \/ SweepIterate \/ SweepReturn

SpecSweep == SweepInit /\ [][SweepNext]_vars

FairSpecSweep == SpecSweep /\ WF_vars(SweepNext)

\* the stepwise loop returns what the function TryMoveCircle returns
SweepAgreesWithFunction ==
    (call.fn = "sweep" /\ ret.done)
        => SamePoint(ret.value,
                     TryMoveCircle(call.m, call.start, call.desired_end, call.radius))

\* the loop is about to run one more iteration
SweepAtIteration == call.fn = "sweep" /\ call.pc = "loop" /\ call.i < call.steps

\* C21: at a sub-step whose full displacement is blocked the loop moves by
\* the X component alone if that position is clear, else by the Y component
\* alone if that is clear, else it leaves p where it was and returns it at
\* once; a slide does not end the loop and does not alter the per-step
\* displacement.
C21_AxisSlidingOrder ==
    [][ /\ SweepAtIteration
           => LET p == call.p
                  candidate == [p EXCEPT !.x = p.x + call.step_v.x,
                                         !.y = p.y + call.step_v.y]
                  try_x == [p EXCEPT !.x = candidate.x]
                  try_y == [p EXCEPT !.y = candidate.y]
                  Clear(q) == IsWorldPosClearCircle(call.m, q, call.radius)
              IN /\ call'.step_v = call.step_v
                 /\ call'.steps = call.steps
                 /\ call'.i = call.i + 1
                 /\ IF Clear(candidate)
                    THEN call'.p = candidate /\ call'.pc = "loop"
                    ELSE IF Clear(try_x)
                    THEN call'.p = try_x /\ call'.pc = "loop"
                    ELSE IF Clear(try_y)
                    THEN call'.p = try_y /\ call'.pc = "loop"
                    ELSE call'.p = p /\ call'.pc = "return"
        /\ (call.fn = "sweep" /\ call.pc = "return")
           => ret'.done /\ ret'.value = call.p ]_vars

\* some sub-step of the finished call slid along the axis `branch` and the
\* sub-step after it took the full displacement
SlidThenFull(branch) ==
    /\ call.fn = "sweep" /\ ret.done
    /\ \E k \in 1..(Len(call.trace) - 1) :
          call.trace[k] = branch /\ call.trace[k + 1] = "full"

\* a call slid along X (Y kept), then went on with a full sub-step
C21_Witness == SlidThenFull("slide_x")

\* a call slid along Y: the full step and the X slide were both blocked
C21_WitnessY ==
    /\ call.fn = "sweep" /\ ret.done
    /\ \E k \in 1..Len(call.trace) : call.trace[k] = "slide_y"

\* a call stopped with sub-steps still to go
C21_WitnessStop ==
    /\ call.fn = "sweep" /\ ret.done
    /\ call.trace # <<>>
    /\ call.trace[Len(call.trace)] = "stop"
    /\ call.i < call.steps

\* the map m turned by half a turn: its cells in the opposite scan order
HalfTurn(m) ==
    [m EXCEPT !.tiles = [i \in 1..Len(m.tiles) |-> m.tiles[Len(m.tiles) + 1 - i]]]

\* no in-bounds 8-neighbour of cell i of m is walkable
Landlocked(m, i) ==
    LET x == (i - 1) % m.width
        y == (i - 1) \div m.width
    IN \A dx \in {-1, 0, 1}, dy \in {-1, 0, 1} :
          (/\ ~(dx = 0 /\ dy = 0)
           /\ x + dx >= 0 /\ x + dx < m.width
           /\ y + dy >= 0 /\ y + dy < m.height)
              => m.tiles[(y + dy) * m.width + (x + dx) + 1] \in Blocking

\* C22: a Water cell with no walkable in-bounds neighbour before the pass is
\* still Water after it, whatever its neighbours were turned into, and the
\* pass over the same cells in the opposite scan order gives the same map.
C22_ShorelineSnapshot ==
    ShoreDone
        => /\ \A i \in 1..Len(call.m.tiles) :
                 (call.m.tiles[i] = "Water" /\ Landlocked(call.m, i))
                    => ret.value.tiles[i] = "Water"
           /\ HalfTurn(ConvertWaterEdgesToShore(HalfTurn(call.m))) = ret.value

\* Grass, Water, Water in every row: the middle column became Shore, and
\* the right column, whose neighbours are now Shore, is still Water
C22_Witness ==
    /\ ShoreDone
    /\ call.m.tiles = <<"Grass", "Water", "Water",
                        "Grass", "Water", "Water",
                        "Grass", "Water", "Water">>
    /\ ret.value.tiles = <<"Grass", "Shore", "Water",
                           "Grass", "Shore", "Water",
                           "Grass", "Shore", "Water">>

\* C23: a displacement of at least the epsilon is cut into the least number
\* of sub-steps, at least one, that makes each no longer than a quarter of
\* a cell; the loop runs at most that many iterations with at most three
\* circle queries each, and the call returns.
C23_BoundedSubStepping ==
    /\ [](((call.fn = "sweep" /\ call.pc # "entry"
              /\ ~BelowEpsilon(Delta(call.start, call.desired_end)))
            => LET delta == Delta(call.start, call.desired_end)
                   s == delta.x * delta.x + delta.y * delta.y
                   Reach(n) == (n * call.m.tile_size * delta.d) \div 4
               IN /\ call.steps >= 1
                  /\ s <= Reach(call.steps) * Reach(call.steps)
                  /\ call.steps = 1
                        \/ s > Reach(call.steps - 1) * Reach(call.steps - 1)
                  /\ call.p.d = delta.d * call.steps
                  /\ call.step_v.x = delta.x /\ call.step_v.y = delta.y
                  /\ call.i <= call.steps
                  /\ call.queries <= 3 * call.i
                  /\ Len(call.trace) = call.i))
    /\ <>(call.fn = "sweep" /\ ret.done)

\* a call over more than two cells ran every one of its sub-steps, some of
\* them slides, and returned
C23_Witness ==
    /\ call.fn = "sweep" /\ ret.done
    /\ call.steps >= 9
    /\ call.i = call.steps
    /\ call.queries > call.i

\* a displacement shorter than a quarter of a cell takes one sub-step
C23_WitnessOneStep ==
    /\ call.fn = "sweep" /\ ret.done
    /\ call.steps = 1 /\ call.i = 1
    /\ call.desired_end.x - call.start.x = 3
    /\ call.desired_end.y - call.start.y = 0

\* Chebyshev distance of cell (x, y) from the centre cell of m
RingOf(m, x, y) == Max(Abs(x - CenterCell(m)[1]), Abs(y - CenterCell(m)[2]))

\* C24: when the search returns the centre cell or a cell found by the ring
\* loop, at ring k, no cell of the grid at a ring smaller than k is a clear
\* candidate, and the cell returned is the first clear one of ring k in the
\* loop's order (dx ascending, then dy ascending), so a grid has one answer.
C24_NearestToCentre ==
    (call.fn = "spawn_search" /\ ret.done /\ ret.via \in {"center", "ring"})
        => \E x \in 0..(call.m.width - 1), y \in 0..(call.m.height - 1) :
              /\ ret.value = CellCenter(call.m, x, y)
              /\ CandidateClear(call.m, x, y)
              /\ (ret.via = "center") <=> (RingOf(call.m, x, y) = 0)
              /\ \A u \in 0..(call.m.width - 1), v \in 0..(call.m.height - 1) :
                    CandidateClear(call.m, u, v)
                       => \/ RingOf(call.m, u, v) > RingOf(call.m, x, y)
                          \/ /\ RingOf(call.m, u, v) = RingOf(call.m, x, y)
                             /\ \/ x < u
                                \/ x = u /\ y <= v

\* the centre and all of ring 1 were blocked; the search returned a cell of
\* ring 2
C24_Witness ==
    /\ call.fn = "spawn_search" /\ ret.done /\ ret.via = "ring"
    /\ call.m.width = 4 /\ call.m.height = 4
    /\ call.ring = 2
    /\ ret.value = CellCenter(call.m, 0, 1)

\* two clear candidates in ring 1: the one with the smaller dx was returned
C24_WitnessOrder ==
    /\ call.fn = "spawn_search" /\ ret.done /\ ret.via = "ring"
    /\ call.m.width = 3 /\ call.m.height = 2
    /\ CandidateClear(call.m, 0, 1) /\ CandidateClear(call.m, 2, 1)
    /\ ret.value = CellCenter(call.m, 0, 1)

\* the circle of radius r at p lies inside the extent of m
InsideGrid(m, p, r) ==
    /\ p.x - r * p.d >= m.grid_origin_x * p.d
    /\ p.x + r * p.d <= (m.grid_origin_x + m.width * m.tile_size) * p.d
    /\ p.y - r * p.d >= m.grid_origin_y * p.d
    /\ p.y + r * p.d <= (m.grid_origin_y + m.height * m.tile_size) * p.d

\* C25: when the start of a swept move is circle-clear for the radius, the
\* position held after every sub-step, and the position returned, is
\* circle-clear for the same radius and inside the grid.
C25_SweepPreservesClearance ==
    (/\ call.fn = "sweep"
     /\ IsWorldPosClearCircle(call.m, call.start, call.radius))
        => /\ IsWorldPosClearCircle(call.m, call.p, call.radius)
           /\ InsideGrid(call.m, call.p, call.radius)
           /\ ret.done => /\ IsWorldPosClearCircle(call.m, ret.value, call.radius)
                          /\ InsideGrid(call.m, ret.value, call.radius)

\* from a clear start a call slid along Y, stopped short of the desired end
\* and returned a point other than the start
C25_Witness ==
    /\ call.fn = "sweep" /\ ret.done
    /\ IsWorldPosClearCircle(call.m, call.start, call.radius)
    /\ call.radius > 0
    /\ \E k \in 1..Len(call.trace) : call.trace[k] = "slide_y"
    /\ ~SamePoint(ret.value, call.start)
    /\ ~SamePoint(ret.value, call.desired_end)

\* the feet point of the player is circle-clear for the collider radius
PlayerFeetClear ==
    /\ IsWorldPosClearCircle(map, FeetOf(player), COLLIDER_RADIUS)
    /\ InsideGrid(map, FeetOf(player), COLLIDER_RADIUS)

\* the same through the frames of the game: once the player's feet point is
\* circle-clear it is circle-clear in every later state
PlayerStaysClear ==
    [][(player # NoPlayer /\ map # NoMap /\ PlayerFeetClear) => PlayerFeetClear']_vars

\* the player has walked away from a clear spawn position
PlayerMovedFromClearSpawn ==
    /\ player # NoPlayer /\ map # NoMap
    /\ PlayerFeetClear
    /\ player \notin FindWalkableSpawnPosition(map)

----------------------------------------------------------------------------
(* Spawn gating under Spec *)

\* this step is the spawn_player system of the frame
SpawnStep == "spawn_player" \notin ran /\ "spawn_player" \in ran'

\* this step is the move_player system of the frame
MoveStep == "move_player" \notin ran /\ "move_player" \in ran'

\* the spawn commands waiting in a queue
Spawns(q) == {i \in 1..Len(q) : q[i].cmd = "spawn"}

\* C26: spawn_player issues a spawn only when the grid is already a
\* resource (so in a frame after the one that built it) and no player was
\* spawned before; without a grid it does nothing; a spawned player is
\* never spawned again; and there is no player, and so no move of one,
\* while there is no grid.
C26_SpawnGating ==
    [][/\ SpawnStep =>
              /\ (map = NoMap \/ player_spawned \/ player # NoPlayer)
                    => queue' = queue /\ player_spawned' = player_spawned
              /\ queue' # queue
                    => /\ map # NoMap /\ built /\ Inserts(queue) = {}
                       /\ ~player_spawned /\ player = NoPlayer
                       /\ player_spawned'
                       /\ Spawns(queue) = {}
       /\ player_spawned => player_spawned'
       /\ Cardinality(Spawns(queue')) <= 1
       /\ Spawns(queue') # {} => player' = NoPlayer
       /\ (player' # NoPlayer \/ Spawns(queue') # {})
              => map' # NoMap /\ player_spawned'
       /\ (player # NoPlayer /\ ~MoveStep) => player' = player
       /\ (MoveStep /\ player' # player) => map # NoMap]_vars

\* a frame went by with no tiles, later the grid was built and the player
\* spawned, and spawn_player has run once more since the player has moved
C26_Witness ==
    /\ waited
    /\ player # NoPlayer
    /\ player_spawned
    /\ player \notin FindWalkableSpawnPosition(map)
    /\ "spawn_player" \in ran
    /\ queue = <<>>

\* start + i * (desired_end - start) / n for the call at hand
SubStepPoint(i, n) ==
    LET delta == Delta(call.start, call.desired_end)
    IN [x |-> call.start.x * call.desired_end.d * n + i * delta.x,
        y |-> call.start.y * call.desired_end.d * n + i * delta.y,
        d |-> delta.d * n]

\* every sub-step position of the straight path is circle-clear, the path
\* being cut into the least number of sub-steps of at most a quarter cell
PathClear ==
    LET n == StepCount(call.m, Delta(call.start, call.desired_end))
    IN \A i \in 1..n :
          IsWorldPosClearCircle(call.m, SubStepPoint(i, n), call.radius)

\* C27 as stated: when every sub-step position is circle-clear the call
\* returns the desired end.
C27_UnobstructedExact ==
    (call.fn = "sweep" /\ ret.done /\ PathClear)
        => SamePoint(ret.value, call.desired_end)

\* C27, amended: when the displacement is at least the epsilon of 0.001 and
\* every sub-step position is circle-clear, the call returns the desired
\* end, having taken every sub-step in full and none as a slide.
C27_UnobstructedExactAboveEpsilon ==
    (/\ call.fn = "sweep" /\ ret.done
     /\ ~BelowEpsilon(Delta(call.start, call.desired_end))
     /\ PathClear)
        => /\ SamePoint(ret.value, call.desired_end)
           /\ Len(call.trace) = call.steps
           /\ \A k \in 1..Len(call.trace) : call.trace[k] = "full"

\* a diagonal displacement of nine sub-steps on a map with a Rock cell,
\* every sub-step position clear: the desired end came back
C27_Witness ==
    /\ call.fn = "sweep" /\ ret.done
    /\ call.steps = 9
    /\ call.radius > 0
    /\ PathClear
    /\ \E i \in 1..Len(call.m.tiles) : call.m.tiles[i] = "Rock"
    /\ call.start.y # call.desired_end.y
    /\ SamePoint(ret.value, call.desired_end)

\* a clear desired end less than the epsilon away: the start came back
C27_WitnessBelowEpsilon ==
    /\ call.fn = "sweep" /\ ret.done
    /\ PathClear
    /\ BelowEpsilon(Delta(call.start, call.desired_end))
    /\ ~SamePoint(call.start, call.desired_end)
    /\ SamePoint(ret.value, call.start)

----------------------------------------------------------------------------
(* Relations between circle queries, under SpecQuery *)

\* the radii below r that are tried: every integer from -2 up to r - 1
SmallerRadii(r) == (-2)..(r - 1)

\* C28: a query that is clear for a radius r > 0 is clear, at the same
\* centre of the same grid, for every smaller radius, and for a radius that
\* is not positive the answer is the walkability of the centre's cell.
C28_ClearanceMonotone ==
    (QueryDone /\ call.radius > 0 /\ ret.value)
        => \A r \in SmallerRadii(call.radius) :
              /\ IsWorldPosClearCircle(call.m, call.p, r)
              /\ r <= 0 => IsWorldPosWalkable(call.m, call.p)

\* a query clear for its radius beside a blocking cell, where one unit more
\* of radius is rejected
C28_Witness ==
    /\ QueryDone
    /\ call.radius = 4
    /\ ret.value
    /\ \E i \in 1..Len(call.m.tiles) : call.m.tiles[i] \in Blocking
    /\ IsWorldPosWithinBounds(call.m, call.p, call.radius + 1)
    /\ ~IsWorldPosClearCircle(call.m, call.p, call.radius + 1)

\* the grid m seen in a mirror across the vertical line through the middle
\* of its extent
MirrorLeftRight(m) ==
    [m EXCEPT !.tiles = [i \in 1..Len(m.tiles) |->
                            LET x == (i - 1) % m.width
                                y == (i - 1) \div m.width
                            IN m.tiles[y * m.width + (m.width - 1 - x) + 1]]]

\* the grid m seen in a mirror across the horizontal line through the
\* middle of its extent
MirrorBottomTop(m) ==
    [m EXCEPT !.tiles = [i \in 1..Len(m.tiles) |->
                            LET x == (i - 1) % m.width
                                y == (i - 1) \div m.width
                            IN m.tiles[(m.height - 1 - y) * m.width + x + 1]]]

\* the images of the point p in the same two mirrors
PointLeftRight(m, p) ==
    [p EXCEPT !.x = (2 * m.grid_origin_x + m.width * m.tile_size) * p.d - p.x]

PointBottomTop(m, p) ==
    [p EXCEPT !.y = (2 * m.grid_origin_y + m.height * m.tile_size) * p.d - p.y]

\* C29: the query at a centre of a grid and the query, with the same
\* radius, at the mirrored centre of the mirrored grid give the same
\* answer, for the left-right mirror and for the bottom-top mirror.
C29_MirrorSymmetric ==
    (QueryDone /\ call.radius > 0)
        => /\ ret.value = IsWorldPosClearCircle(MirrorLeftRight(call.m),
                                                PointLeftRight(call.m, call.p),
                                                call.radius)
           /\ ret.value = IsWorldPosClearCircle(MirrorBottomTop(call.m),
                                                PointBottomTop(call.m, call.p),
                                                call.radius)

----------------------------------------------------------------------------
(* SpecPickup: the inventory of chapter 5, handle_pickups and Inventory::add *)

ItemKinds == {"Plant1", "Plant2", "Plant3", "Plant4", "TreeStump"}

\* config::pickup::DEFAULT_RADIUS, in world units
DEFAULT_RADIUS == 40

\* Inventory::add: the map after the call and the count it returns
InventoryAdd(items, kind) ==
    LET entry == IF kind \in DOMAIN items THEN items[kind] ELSE 0
    IN [items |-> [k \in DOMAIN items \cup {kind} |->
                      IF k = kind THEN entry + 1 ELSE items[k]],
        count |-> entry + 1]

\* player_pos.distance_squared(item_pos)
DistanceSquared(a, b) == (a.x - b.x) * (a.x - b.x) + (a.y - b.y) * (a.y - b.y)

\* mutant: an item exactly at its radius is out of reach
WithinPickupRadiusStrict(player_pos, item_pos, radius) ==
    DistanceSquared(player_pos, item_pos) < radius * radius

\* systems.rs:25
WithinPickupRadius(player_pos, item_pos, radius) ==
    DistanceSquared(player_pos, item_pos) <= radius * radius

\* the loop of systems.rs:31-38 over the collected entities ids, in
\* ascending order of entity: the inventory and the counts add returned
RECURSIVE ProcessCollected(_, _, _, _)
ProcessCollected(items, ids, kind_of, log) ==
    IF ids = {} THEN [items |-> items, log |-> log]
    ELSE LET id == SetMin(ids)
             added == InventoryAdd(items, kind_of[id])
         IN ProcessCollected(added.items, ids \ {id}, kind_of,
                             Append(log, [kind |-> kind_of[id], count |-> added.count]))

MaxItems == 3

PickupKinds == {"Plant1", "TreeStump"}
PickupSpots == {[x |-> 0, y |-> 0], [x |-> 24, y |-> 32], [x |-> 41, y |-> 0]}
PlayerSpots == {[x |-> 0, y |-> 0], [x |-> 1, y |-> 0], [x |-> 200, y |-> 0]}

\* the pickable entities 1..MaxItems as the map generator spawned them, no
\* player yet, an empty inventory
PickupInit ==
    /\ WorldIdle
    /\ ret = [done |-> FALSE, value |-> <<>>]
    /\ \E kind_of \in [1..MaxItems -> PickupKinds], pos_of \in [1..MaxItems -> PickupSpots] :
          call = [fn |-> "handle_pickups",
                  playing |-> TRUE,
                  player |-> NoPlayer,
                  kind |-> kind_of,
                  pos |-> pos_of,
                  radius |-> [id \in 1..MaxItems |-> DEFAULT_RADIUS],
                  live |-> 1..MaxItems,
                  items |-> [k \in {} |-> 0],
                  queue |-> {},
                  ran |-> FALSE,
                  removed |-> 0,
                  counted |-> [id \in 1..MaxItems |-> 0]]

\* the system handle_pickups, once in a frame while the state is Playing
HandlePickups ==
    /\ call.fn = "handle_pickups"
    /\ call.playing
    /\ ~call.ran
    /\ IF call.player = NoPlayer
       THEN /\ call' = [call EXCEPT !.ran = TRUE]
            /\ ret' = [done |-> TRUE, value |-> <<>>]
       ELSE LET collected == { id \in call.live :
                                 WithinPickupRadius(call.player, call.pos[id],
                                                    call.radius[id]) }
                done == ProcessCollected(call.items, collected, call.kind, <<>>)
            IN /\ call' = [call EXCEPT
                              !.ran = TRUE,
                              !.queue = call.queue \cup collected,
                              !.items = done.items,
                              !.counted = [id \in 1..MaxItems |->
                                             IF id \in collected
                                             THEN call.counted[id] + 1
                                             ELSE call.counted[id]]]
               /\ ret' = [done |-> TRUE, value |-> done.log]
    /\ UNCHANGED world

\* between frames the player entity appears or walks somewhere else
PlayerWalks ==
    /\ call.fn = "handle_pickups"
    /\ ~call.ran
    /\ \E spot \in PlayerSpots :
          /\ spot # call.player
          /\ call' = [call EXCEPT !.player = spot]
    /\ UNCHANGED <<world, ret>>

\* between frames the game enters or leaves GameState::Playing
TogglePlaying ==
    /\ call.fn = "handle_pickups"
    /\ ~call.ran
    /\ call' = [call EXCEPT !.playing = ~call.playing]
    /\ UNCHANGED <<world, ret>>

\* the end of the frame: the queued despawns are applied
PickupEndFrame ==
    /\ call.fn = "handle_pickups"
    /\ call.ran
    /\ call' = [call EXCEPT
                   !.ran = FALSE,
                   !.live = call.live \ call.queue,
                   !.removed = call.removed + Cardinality(call.queue),
                   !.queue = {}]
    /\ UNCHANGED <<world, ret>>

PickupNext == HandlePickups \/ PlayerWalks \/ TogglePlaying \/ PickupEndFrame

SpecPickup == PickupInit /\ [][PickupNext]_vars

\* the count the inventory holds for kind k
CountOfKind(items, k) == IF k \in DOMAIN items THEN items[k] ELSE 0

RECURSIVE SumOfCounts(_, _)
SumOfCounts(items, kinds) ==
    IF kinds = {} THEN 0
    ELSE LET k == CHOOSE q \in kinds : TRUE
         IN CountOfKind(items, k) + SumOfCounts(items, kinds \ {k})

\* the live pickables of kind k within their radius of the player
InReach(k) ==
    { id \in call.live :
        /\ call.kind[id] = k
        /\ DistanceSquared(call.player, call.pos[id]) <= call.radius[id] * call.radius[id] }

\* this step is a tick of handle_pickups
PickupTick == call.fn = "handle_pickups" /\ ~call.ran /\ call'.ran

\* C30: a tick of handle_pickups queues the despawn of exactly the live
\* pickables within their radius of the player and raises the count of
\* each kind by the number of those of that kind (by nothing without a
\* player); the last count add returned for a kind is the count the
\* inventory then holds; no count ever decreases; no pickable is counted
\* twice; and the counts add up to the pickables removed plus those whose
\* despawn is queued, so to the pickables removed once the frame has ended.
C30_PickupAccounting ==
    [][call.fn = "handle_pickups" =>
          /\ PickupTick =>
                /\ \A k \in ItemKinds :
                      CountOfKind(call'.items, k) =
                         CountOfKind(call.items, k)
                            + (IF call.player = NoPlayer THEN 0
                               ELSE Cardinality(InReach(k)))
                /\ call'.queue =
                      (IF call.player = NoPlayer THEN {}
                       ELSE UNION {InReach(k) : k \in ItemKinds})
                /\ Len(ret'.value) = Cardinality(call'.queue)
                /\ \A k \in ItemKinds :
                      \A i \in 1..Len(ret'.value) :
                         (/\ ret'.value[i].kind = k
                          /\ \A j \in (i + 1)..Len(ret'.value) : ret'.value[j].kind # k)
                            => ret'.value[i].count = CountOfKind(call'.items, k)
          /\ \A k \in ItemKinds :
                CountOfKind(call'.items, k) >= CountOfKind(call.items, k)
          /\ \A id \in 1..MaxItems : call'.counted[id] <= 1
          /\ SumOfCounts(call'.items, ItemKinds)
                = call'.removed + Cardinality(call'.queue)
          /\ call'.queue \subseteq call'.live
          /\ ~call'.ran => call'.queue = {}]_vars

\* two pickables of one kind taken in one tick, one of them exactly at its
\* radius, a third out of reach by one unit; the frame has ended
C30_Witness ==
    /\ call.fn = "handle_pickups"
    /\ call.player = [x |-> 0, y |-> 0]
    /\ call.kind = <<"Plant1", "Plant1", "TreeStump">>
    /\ call.pos = <<[x |-> 0, y |-> 0], [x |-> 24, y |-> 32], [x |-> 41, y |-> 0]>>
    /\ call.live = {3}
    /\ ~call.ran
    /\ call.removed = 2
    /\ call.items = [k \in {"Plant1"} |-> 2]
    /\ ret.value = <<[kind |-> "Plant1", count |-> 1], [kind |-> "Plant1", count |-> 2]>>

====
